---- MODULE Spec2Model ----
(***************************************************************************)
(* md2jira: synchronisation of markdown user stories with Jira issues.     *)
(*                                                                         *)
(* Two state machines share this module.                                   *)
(*   MatchSpec  the legacy engine's title matcher (md2jira.py), applied to *)
(*              bounded lists of local stories and remote issues.          *)
(*   Spec       the SyncOrchestrator (analyze / sync and its five phases)  *)
(*              driving a JiraAdapter and JiraApiClient against a remote   *)
(*              tracker.                                                   *)
(* Text is modelled as sequences of one-character strings, so that         *)
(* lower-casing, regular-expression substitution, splitting and substring  *)
(* tests are computed the way the Python code computes them.               *)
(***************************************************************************)
EXTENDS Integers, Sequences, FiniteSets, TLC

VARIABLES
    m_md,        \* MatchSpec: local stories handed to _match_stories
    m_jira,      \* MatchSpec: remote issues handed to _match_stories
    m_matches,   \* MatchSpec: the dict returned by the legacy _match_stories
    m_pc,        \* MatchSpec: "input" before the call, "matched" after it
    config,      \* SyncConfig: dry_run and the four phase flags
    adapter_arg, \* the dry_run argument JiraAdapter was constructed with
    adapter,     \* JiraAdapter._dry_run and JiraApiClient.dry_run
    current_user,\* JiraApiClient._current_user is cached
    doc,         \* the stories the parser returns for the markdown document
    remote,      \* the remote tracker: the epic's issues, subtasks, comments
    remote_init, \* the remote tracker as it was at construction
    o_md_stories,   \* SyncOrchestrator._md_stories
    o_jira_issues,  \* SyncOrchestrator._jira_issues
    o_matches,      \* SyncOrchestrator._matches (story_id -> issue_key)
    result,      \* the SyncResult of the sync() call in progress
    pc,          \* "idle", or the phase the sync() call in progress is about to run
    log,         \* tracker-port calls of the current call: [phase, op]
    mutations,   \* mutating requests of the current call that reached the remote
    failures,    \* failed network requests of the current call
    op_failures, \* commands of the current sync() call that reported failure
    ret,         \* what the last analyze()/sync() call returned or raised
    prev_ret,    \* what the call before the last one returned or raised
    analyses,    \* the last two analyze() returns, each with the remote it saw
    calls,       \* analyze()/sync() calls made so far
    t_last,      \* TransitionSpec: the last transition_issue call and its outcome
    h_hooks,     \* HookSpec: HookManager._hooks, hook point -> list of hooks
    h_registered,\* HookSpec: register() calls made so far
    h_trace,     \* HookSpec: the hooks the last trigger() invoked, in order
    h_context,   \* HookSpec: the HookContext the last trigger() returned
    e_handlers,  \* BusSpec: EventBus._handlers, event type -> list of handlers
    e_history,   \* BusSpec: EventBus._history
    e_called,    \* BusSpec: the handlers the last publish() called, in order
    e_outcome,   \* BusSpec: "returned" or "raised" for the last publish(), else "none"
    b_commands,  \* BatchSpec: CommandBatch.commands
    b_stop_on_error, \* BatchSpec: CommandBatch.stop_on_error
    b_results,   \* BatchSpec: CommandBatch.results
    b_pc,        \* BatchSpec: "adding" before execute_all(), "executed" after it
    p_content,   \* ParseSpec: the story headers of the markdown document
    p_stories,   \* ParseSpec: the ids and titles of the stories parse_stories returned
    p_pc,        \* ParseSpec: "input" before the call, "parsed" after it
    f_text,      \* FormatSpec: the lines of the text handed to format_text
    f_doc,       \* FormatSpec: what format_text returned, or that it raised
    f_pc,        \* FormatSpec: "input" before the call, "formatted" after it
    l_engine,    \* LegacySpec: JiraSyncEngine.dry_run and JiraSyncEngine.confirm
    l_md,        \* LegacySpec: the stories the legacy parser returns
    l_jira,      \* LegacySpec: the remote tracker the legacy client talks to
    l_events,    \* LegacySpec: prompts shown and write requests sent, in order
    l_calls      \* LegacySpec: the engine methods called so far, in order

m_vars == <<m_md, m_jira, m_matches, m_pc>>
o_vars == <<config, adapter_arg, adapter, current_user, doc, remote, remote_init, o_md_stories,
            o_jira_issues, o_matches, result, pc, log, mutations, failures,
            op_failures, ret, prev_ret, analyses, calls>>
t_vars == <<t_last>>
h_vars == <<h_hooks, h_registered, h_trace, h_context>>
e_vars == <<e_handlers, e_history, e_called, e_outcome>>
b_vars == <<b_commands, b_stop_on_error, b_results, b_pc>>
p_vars == <<p_content, p_stories, p_pc>>
f_vars == <<f_text, f_doc, f_pc>>
l_vars == <<l_engine, l_md, l_jira, l_events, l_calls>>
\* everything outside the orchestrator, the adapter and the remote
other_vars == <<m_vars, t_vars, h_vars, e_vars, b_vars, p_vars, f_vars, l_vars>>
vars == <<o_vars, other_vars>>

----------------------------------------------------------------------------
(* Bounds of the model. *)

MaxLocal == 2     \* local stories in one matching pass
MaxRemote == 2    \* remote issues in one matching pass
MaxStories == 2   \* stories in the markdown document
MaxFailures == 1  \* network requests that fail during one run
MaxCalls == 2     \* analyze()/sync() calls in one run

----------------------------------------------------------------------------
(* Text helpers: Python str operations on sequences of characters. *)

UpperChars == <<"A","B","C","D","E","F","G","H","I","J","K","L","M",
                "N","O","P","Q","R","S","T","U","V","W","X","Y","Z">>
LowerChars == <<"a","b","c","d","e","f","g","h","i","j","k","l","m",
                "n","o","p","q","r","s","t","u","v","w","x","y","z">>
DigitChars == <<"0","1","2","3","4","5","6","7","8","9">>

Range(f) == {f[i] : i \in DOMAIN f}

UpperSet == Range(UpperChars)
LowerOf == [c \in UpperSet |-> LowerChars[CHOOSE i \in DOMAIN UpperChars : UpperChars[i] = c]]
WordChars == UpperSet \cup Range(LowerChars) \cup Range(DigitChars) \cup {"_"}
SpaceChars == {" ", "\t"}

\* str.lower() on one character
LowerChar(c) == IF c \in UpperSet THEN LowerOf[c] ELSE c

\* str.lower()
Lower(s) == [i \in DOMAIN s |-> LowerChar(s[i])]

\* the regular-expression classes \w and \s
IsWordChar(c) == c \in WordChars
IsSpaceChar(c) == c \in SpaceChars

\* s.endswith(suffix)
EndsWith(s, suffix) ==
    /\ Len(suffix) <= Len(s)
    /\ SubSeq(s, Len(s) - Len(suffix) + 1, Len(s)) = suffix

\* needle in hay (Python substring test)
Contains(hay, needle) ==
    \E i \in 0..(Len(hay) - Len(needle)) : SubSeq(hay, i + 1, i + Len(needle)) = needle

\* s with its trailing whitespace removed
RECURSIVE RStrip(_)
RStrip(s) ==
    IF s # <<>> /\ IsSpaceChar(s[Len(s)]) THEN RStrip(SubSeq(s, 1, Len(s) - 1)) ELSE s

\* s with its leading whitespace removed
RECURSIVE LStrip(_)
LStrip(s) ==
    IF s # <<>> /\ IsSpaceChar(s[1]) THEN LStrip(Tail(s)) ELSE s

\* ' '.join(s.split()): whitespace runs become one space, the ends are trimmed
RECURSIVE CollapseSpaces(_)
CollapseSpaces(s) ==
    LET t == LStrip(s) IN
    IF t = <<>> THEN <<>>
    ELSE LET rest == Tail(t) IN
         IF rest = <<>> THEN <<t[1]>>
         ELSE IF IsSpaceChar(rest[1])
              THEN LET more == CollapseSpaces(rest) IN
                   IF more = <<>> THEN <<t[1]>> ELSE <<t[1], " ">> \o more
              ELSE <<t[1]>> \o CollapseSpaces(rest)

FutureSuffix == <<"(","f","u","t","u","r","e",")">>

\* re.sub(r'\s*\(future\)\s*$', '', title)
StripFuture(title) ==
    LET t == RStrip(title) IN
    IF EndsWith(t, FutureSuffix)
    THEN RStrip(SubSeq(t, 1, Len(t) - Len(FutureSuffix)))
    ELSE title

\* re.sub(r'[^\w\s]', ' ', title)
PunctToSpace(title) ==
    [i \in DOMAIN title |->
        IF IsWordChar(title[i]) \/ IsSpaceChar(title[i]) THEN title[i] ELSE " "]

\* UserStory.normalize_title
UserStory_normalize_title(title) ==
    CollapseSpaces(PunctToSpace(StripFuture(Lower(title))))

\* JiraIssue.normalize_title
JiraIssue_normalize_title(summary) ==
    CollapseSpaces(PunctToSpace(Lower(summary)))

----------------------------------------------------------------------------
(* Python dict with insertion order, as a sequence of <<key, value>> pairs. *)

DictHas(d, k) == \E i \in DOMAIN d : d[i][1] = k

DictGet(d, k) == d[CHOOSE i \in DOMAIN d : d[i][1] = k][2]

\* d[k] = v: an existing key keeps its position and takes the new value
DictSet(d, k, v) ==
    IF DictHas(d, k)
    THEN [i \in DOMAIN d |-> IF d[i][1] = k THEN <<k, v>> ELSE d[i]]
    ELSE Append(d, <<k, v>>)

----------------------------------------------------------------------------
(* Titles used as inputs. *)

T_AddLoginFuture == <<"A","d","d"," ","l","o","g","i","n"," ","(","F","u","t","u","r","e",")">>
T_AddLogin       == <<"A","d","d"," ","L","o","g","i","n">>
T_AddLoginLower  == <<"A","d","d"," ","l","o","g","i","n">>
T_AddLoginPage   == <<"A","d","d"," ","l","o","g","i","n"," ","p","a","g","e">>
T_AddDashLogin   == <<"a","d","d","-","l","o","g","i","n","!">>
T_Add            == <<"A","d","d">>
T_Export         == <<"E","x","p","o","r","t">>
T_Bangs          == <<"!","!">>
T_LoginFutureRem == <<"A","d","d"," ","L","o","g","i","n"," ","(","F","u","t","u","r","e",")">>

LocalTitles == {T_AddLoginFuture, T_AddLoginLower, T_Add, T_Export}
RemoteTitles == {T_AddLogin, T_AddLoginPage, T_AddDashLogin, T_Add, T_Bangs, T_LoginFutureRem}
StoryIds == {"US-001", "US-002"}

SeqsUpTo(S, n) == UNION {[1..k -> S] : k \in 0..n}

----------------------------------------------------------------------------
(* Legacy engine: JiraSyncEngine._match_stories (md2jira.py). *)

\* jira_by_title: normalized title -> issue, later issues overwrite the value
RECURSIVE JiraByTitle(_, _)
JiraByTitle(jira_stories, acc) ==
    IF jira_stories = <<>> THEN acc
    ELSE JiraByTitle(Tail(jira_stories),
                     DictSet(acc, JiraIssue_normalize_title(Head(jira_stories).summary),
                             Head(jira_stories)))

\* the first entry of jira_by_title, in iteration order, that contains or is
\* contained in the normalized local title; 0 when there is none
FirstContaining(jira_by_title, normalized) ==
    LET hits == {i \in DOMAIN jira_by_title :
                    \/ Contains(jira_by_title[i][1], normalized)
                    \/ Contains(normalized, jira_by_title[i][1])}
    IN IF hits = {} THEN 0 ELSE CHOOSE i \in hits : \A j \in hits : i <= j

\* the body of the loop over md_stories
LegacyMatchOne(matches, md, jira_by_title) ==
    LET normalized == UserStory_normalize_title(md.title) IN
    IF DictHas(jira_by_title, normalized)
    THEN DictSet(matches, md.id, <<md, DictGet(jira_by_title, normalized)>>)
    ELSE LET i == FirstContaining(jira_by_title, normalized) IN
         IF i = 0 THEN matches ELSE DictSet(matches, md.id, <<md, jira_by_title[i][2]>>)

RECURSIVE LegacyMatchLoop(_, _, _)
LegacyMatchLoop(md_stories, jira_by_title, matches) ==
    IF md_stories = <<>> THEN matches
    ELSE LegacyMatchLoop(Tail(md_stories), jira_by_title,
                         LegacyMatchOne(matches, Head(md_stories), jira_by_title))

\* matches: story id -> (md story, matched issue)
Legacy_match_stories(md_stories, jira_stories) ==
    LegacyMatchLoop(md_stories, JiraByTitle(jira_stories, <<>>), <<>>)

----------------------------------------------------------------------------
(* Data of the orchestrator model: local stories and remote trackers. *)

\* Python's None: where a string is expected, where a record is expected,
\* and where a key or an error message (a tuple) is expected
None == "None"
NoneRec == [none |-> TRUE]
NoKey == <<>>
NoError == <<>>
EmptyJson == <<>>    \* the {} a suppressed request returns

ST_Analyze    == <<"A","n","a","l","y","z","e">>
ST_Open       == <<"O","p","e","n">>
ST_InProgress == <<"I","n"," ","P","r","o","g","r","e","s","s">>
ST_Resolved   == <<"R","e","s","o","l","v","e","d">>
ST_Closed     == <<"C","l","o","s","e","d">>

N_WriteTests      == <<"W","r","i","t","e"," ","T","e","s","t","s">>
N_WriteTestsLower == <<"w","r","i","t","e"," ","t","e","s","t","s">>
N_Deploy          == <<"D","e","p","l","o","y">>
N_DeployToProd    == <<"D","e","p","l","o","y"," ","t","o"," ","p","r","o","d">>

\* ADFFormatter: the documents the orchestrator sends; format_commits_table
\* puts the rows under a "Related Commits" heading
ADFFormatter_format_text(text) == [heading |-> None, rows |-> <<text>>]
ADFFormatter_format_story_description(story) == ADFFormatter_format_text(story.description)
ADFFormatter_format_commits_table(commits) == [heading |-> "Related Commits", rows |-> commits]

\* comment bodies found on the remote at the start
CommitsBody == ADFFormatter_format_commits_table(<<"c0">>)
OtherBody == ADFFormatter_format_text("Review notes")

LocalSubtask(name) == [name |-> name, description |-> "subtask text", story_points |-> 1]

Story1 == [id |-> "US-001", title |-> T_AddLoginFuture, description |-> "As a user",
           subtasks |-> <<LocalSubtask(N_WriteTests)>>, commits |-> <<"c1", "c2">>,
           status |-> "DONE"]
Story2 == [id |-> "US-002", title |-> T_Export, description |-> "",
           subtasks |-> <<>>, commits |-> <<>>, status |-> "PLANNED"]
Story3 == [id |-> "US-003", title |-> T_AddLoginLower, description |-> "As an admin",
           subtasks |-> <<LocalSubtask(N_Deploy)>>, commits |-> <<"c3">>,
           status |-> "DONE"]

StoryPool == {Story1, Story2, Story3}

RemoteSubtask(n, summary, status) ==
    [key |-> <<"P", n>>, summary |-> summary, description |-> NoneRec, status |-> status]

RemoteIssue(n, summary, description, subtasks, comments) ==
    [key |-> <<"P", n>>, summary |-> summary, description |-> description,
     status |-> ST_Open, subtasks |-> subtasks, comments |-> comments]

\* JiraAdapter.DEFAULT_TRANSITIONS: the workflow the adapter is written for
DEFAULT_TRANSITIONS ==
    {[from |-> ST_Analyze, id |-> "7", to |-> ST_Open],
     [from |-> ST_Open, id |-> "4", to |-> ST_InProgress],
     [from |-> ST_Open, id |-> "5", to |-> ST_Resolved],
     [from |-> ST_InProgress, id |-> "5", to |-> ST_Resolved],
     [from |-> ST_InProgress, id |-> "301", to |-> ST_Open]}

\* a remote is its epic's issues, the number of the next key and the
\* workflow of its subtasks

\* an epic whose only issue lacks description, subtasks and comments
RemoteFresh == [children |-> <<RemoteIssue(1, T_AddLogin, NoneRec, <<>>, <<>>)>>, seqno |-> 10, workflow |-> DEFAULT_TRANSITIONS]
\* an epic that was synced before
RemoteSynced ==
    [children |-> <<RemoteIssue(1, T_AddLogin, ADFFormatter_format_text("old text"),
                                <<RemoteSubtask(2, N_WriteTestsLower, ST_Analyze),
                                  RemoteSubtask(4, N_DeployToProd, ST_Resolved)>>,
                                <<[body |-> CommitsBody]>>)>>,
     seqno |-> 10, workflow |-> DEFAULT_TRANSITIONS]
\* an epic with two issues, the first matching by containment only
RemoteTwo ==
    [children |-> <<RemoteIssue(1, T_AddLoginPage, NoneRec,
                                <<RemoteSubtask(3, N_WriteTests, ST_Resolved),
                                  RemoteSubtask(5, N_DeployToProd, ST_Closed)>>,
                                <<[body |-> OtherBody]>>),
                    RemoteIssue(2, T_Export, NoneRec, <<>>, <<>>)>>,
     seqno |-> 10, workflow |-> DEFAULT_TRANSITIONS]
RemoteEmpty == [children |-> <<>>, seqno |-> 10, workflow |-> DEFAULT_TRANSITIONS]

RemotePool == {RemoteFresh, RemoteSynced, RemoteTwo, RemoteEmpty}

----------------------------------------------------------------------------
(* The remote tracker behind the REST API. *)

\* every issue and subtask of the remote, as a set
AllIssues(rem) ==
    Range(rem.children) \cup UNION {Range(c.subtasks) : c \in Range(rem.children)}

HasIssue(rem, key) == \E x \in AllIssues(rem) : x.key = key
IssueOf(rem, key) == CHOOSE x \in AllIssues(rem) : x.key = key

\* an issue after a change [field, append, value]: the value is appended to
\* the field or replaces it
Changed(c, change) ==
    [c EXCEPT ![change.field] =
        IF change.append THEN Append(@, change.value) ELSE change.value]

\* the remote with a change applied to the issue or subtask called key
MapIssue(rem, key, change) ==
    [rem EXCEPT !.children =
        [i \in DOMAIN rem.children |->
            IF rem.children[i].key = key THEN Changed(rem.children[i], change)
            ELSE [rem.children[i] EXCEPT !.subtasks =
                    [j \in DOMAIN @ |->
                        IF @[j].key = key THEN Changed(@[j], change) ELSE @[j]]]]]

SearchEndpoint == <<"search", "/", "jql">>
IssueEndpoint(key) == <<"issue", "/", key>>
CommentEndpoint(key) == <<"issue", "/", key, "/", "comment">>
TransitionsEndpoint(key) == <<"issue", "/", key, "/", "transitions">>

\* the remote's answer to one request: its new state, whether the response is
\* ok, and the response body
Server(rem, method, endpoint, json) ==
    LET fail == [remote |-> rem, ok |-> FALSE, data |-> EmptyJson]
        key == endpoint[3]
    IN
    IF endpoint = SearchEndpoint /\ method = "POST"
    THEN [remote |-> rem, ok |-> TRUE, data |-> [issues |-> rem.children]]
    ELSE IF endpoint = <<"myself">> /\ method = "GET"
    THEN [remote |-> rem, ok |-> TRUE, data |-> [accountId |-> "me"]]
    ELSE IF endpoint = <<"issue">> /\ method = "POST"
    THEN LET parent == json.fields.parent IN
         IF ~HasIssue(rem, parent) THEN fail
         ELSE LET new == [key |-> <<json.fields.project, rem.seqno>>,
                          summary |-> json.fields.summary,
                          description |-> json.fields.description,
                          status |-> ST_Analyze]
                  created == MapIssue(rem, parent,
                                      [field |-> "subtasks", append |-> TRUE, value |-> new])
              IN [remote |-> [created EXCEPT !.seqno = @ + 1], ok |-> TRUE,
                  data |-> [key |-> new.key]]
    ELSE IF Len(endpoint) < 3 \/ ~HasIssue(rem, key) THEN fail
    ELSE IF Len(endpoint) = 3 /\ method = "GET"
    THEN [remote |-> rem, ok |-> TRUE, data |-> IssueOf(rem, key)]
    ELSE IF Len(endpoint) = 3 /\ method = "PUT"
    THEN [remote |-> IF "description" \in DOMAIN json.fields
                     THEN MapIssue(rem, key, [field |-> "description", append |-> FALSE,
                                              value |-> json.fields.description])
                     ELSE rem,
          ok |-> TRUE, data |-> EmptyJson]
    ELSE IF endpoint = CommentEndpoint(key) /\ method = "GET"
    THEN [remote |-> rem, ok |-> TRUE, data |-> [comments |-> IssueOf(rem, key).comments]]
    ELSE IF endpoint = CommentEndpoint(key) /\ method = "POST"
    THEN [remote |-> MapIssue(rem, key, [field |-> "comments", append |-> TRUE,
                                          value |-> [body |-> json.body]]),
          ok |-> TRUE, data |-> EmptyJson]
    ELSE IF endpoint = TransitionsEndpoint(key) /\ method = "POST"
    THEN LET now == IssueOf(rem, key).status
             hits == {t \in rem.workflow : t.from = now /\ t.id = json.transition.id}
         IN IF hits = {} THEN fail
            ELSE [remote |-> MapIssue(rem, key, [field |-> "status", append |-> FALSE,
                                                  value |-> (CHOOSE t \in hits : TRUE).to]),
                  ok |-> TRUE, data |-> EmptyJson]
    ELSE fail

----------------------------------------------------------------------------
(* JiraApiClient (adapters/jira/client.py).                                *)
(* A call threads a record w through: the remote, the number of network    *)
(* requests issued so far (net), the requests that fail (F), the mutating  *)
(* requests sent (muts), the cached user, the tracker-port call log, the   *)
(* running phase, the SyncResult (res), the failed commands (opfail) and   *)
(* the requests of the call with their answers (trace).                    *)
(* It returns [w, exc, val]: exc says that an IssueTrackerError was raised.*)

Return(w, val) == [w |-> w, exc |-> FALSE, val |-> val]
Raise(w) == [w |-> w, exc |-> TRUE, val |-> None]

\* the element of a one-element set; "x = call(); rest" is written
\* Only({rest : x \in {call}}), which names the outcome of the call once
Only(S) == CHOOSE x \in S : TRUE

\* dict.get(field, default)
JsonGet(data, field, default) == IF field \in DOMAIN data THEN data[field] ELSE default

\* the world after a request was sent
Sent(w, method, endpoint, json) ==
    [w EXCEPT !.net = @ + 1,
              !.muts = IF method # "GET" /\ endpoint # SearchEndpoint
                       THEN Append(@, <<method, endpoint, json>>) ELSE @]

\* the world after a request was sent and answered: the exchange is added to
\* the trace of the call
Answered(w, method, endpoint, json, ok, data) ==
    [Sent(w, method, endpoint, json) EXCEPT
        !.trace = Append(@, [method |-> method, endpoint |-> endpoint, json |-> json,
                             ok |-> ok, data |-> data])]

\* JiraApiClient.request with _handle_response: a connection error, a timeout
\* or a response that is not ok raises IssueTrackerError
JiraApiClient_request(w, method, endpoint, json) ==
    IF (w.net + 1) \in w.F THEN Raise(Answered(w, method, endpoint, json, FALSE, EmptyJson))
    ELSE Only({IF ~r.ok THEN Raise(Answered(w, method, endpoint, json, FALSE, EmptyJson))
               ELSE Return([Answered(w, method, endpoint, json, TRUE, r.data)
                                EXCEPT !.remote = r.remote],
                           r.data) :
                 r \in {Server(w.remote, method, endpoint, json)}})

JiraApiClient_get(w, endpoint) == JiraApiClient_request(w, "GET", endpoint, EmptyJson)

\* "POST request (checks dry_run for mutations)"
JiraApiClient_post(w, endpoint, json) ==
    IF adapter.client_dry_run /\ ~EndsWith(endpoint, <<"/", "search", "/", "jql">>)
    THEN Return(w, EmptyJson)
    ELSE JiraApiClient_request(w, "POST", endpoint, json)

JiraApiClient_put(w, endpoint, json) ==
    IF adapter.client_dry_run
    THEN Return(w, EmptyJson)
    ELSE JiraApiClient_request(w, "PUT", endpoint, json)

JiraApiClient_get_myself(w) ==
    IF w.user = NoneRec
    THEN Only({IF r.exc THEN r
               ELSE Return([r.w EXCEPT !.user = r.val], r.val) :
                 r \in {JiraApiClient_get(w, <<"myself">>)}})
    ELSE Return(w, w.user)

JiraApiClient_get_current_user_id(w) ==
    Only({IF r.exc THEN r
          ELSE Return(r.w, r.val.accountId) :
            r \in {JiraApiClient_get_myself(w)}})

JiraApiClient_search_jql(w, jql) ==
    JiraApiClient_post(w, SearchEndpoint, [jql |-> jql])

----------------------------------------------------------------------------
(* JiraAdapter (adapters/jira/adapter.py). *)

\* a faulty __init__ that drops its dry_run argument
JiraAdapter_init_dropping_flag(dry_run) == [dry_run |-> FALSE, client_dry_run |-> FALSE]

\* JiraAdapter.__init__: the adapter and its client take the same dry_run
JiraAdapter_init(dry_run) == [dry_run |-> dry_run, client_dry_run |-> dry_run]

JiraAdapter_parse_subtasks(sts) ==
    [i \in DOMAIN sts |-> [key |-> sts[i].key, summary |-> sts[i].summary,
                           status |-> sts[i].status]]

JiraAdapter_parse_issue(data) ==
    [key |-> data.key,
     summary |-> JsonGet(data, "summary", <<>>),
     description |-> JsonGet(data, "description", NoneRec),
     status |-> JsonGet(data, "status", <<>>),
     subtasks |-> JiraAdapter_parse_subtasks(JsonGet(data, "subtasks", <<>>))]

JiraAdapter_parse_issues(issues) ==
    [i \in DOMAIN issues |-> JiraAdapter_parse_issue(issues[i])]

JiraAdapter_get_issue(w, issue_key) ==
    Only({IF r.exc THEN r
          ELSE Return(r.w, JiraAdapter_parse_issue(r.val)) :
            r \in {JiraApiClient_get(w, IssueEndpoint(issue_key))}})

JiraAdapter_get_epic_children(w, epic_key) ==
    Only({IF r.exc THEN r
          ELSE Return(r.w, JiraAdapter_parse_issues(JsonGet(r.val, "issues", <<>>))) :
            r \in {JiraApiClient_search_jql(w, <<"parent =", epic_key, "ORDER BY key ASC">>)}})

JiraAdapter_get_issue_comments(w, issue_key) ==
    Only({IF r.exc THEN r
          ELSE Return(r.w, JsonGet(r.val, "comments", <<>>)) :
            r \in {JiraApiClient_get(w, CommentEndpoint(issue_key))}})

JiraAdapter_get_issue_status(w, issue_key) ==
    Only({IF r.exc THEN r
          ELSE Return(r.w, r.val.status) :
            r \in {JiraApiClient_get(w, IssueEndpoint(issue_key))}})

JiraAdapter_update_issue_description(w, issue_key, description) ==
    IF adapter.dry_run THEN Return(w, TRUE)
    ELSE Only({IF r.exc THEN r
               ELSE Return(r.w, TRUE) :
                 r \in {JiraApiClient_put(w, IssueEndpoint(issue_key),
                                [fields |-> [description |-> description]])}})

JiraAdapter_create_subtask(w, parent_key, summary, description, project_key, story_points) ==
    IF adapter.dry_run THEN Return(w, NoKey)
    ELSE Only({IF u.exc THEN u
               ELSE Only({IF r.exc THEN r
                      ELSE Return(r.w, JsonGet(r.val, "key", NoKey)) :
                        r \in {JiraApiClient_post(u.w, <<"issue">>,
                        [fields |-> [project |-> project_key, parent |-> parent_key,
                                     summary |-> summary, description |-> description,
                                     assignee |-> u.val, points |-> story_points]])}}) :
                 u \in {JiraApiClient_get_current_user_id(w)}})

\* the fields update_subtask sends; description is a string or None,
\* story_points is <<n>>, or <<>> for None
UpdateSubtaskFields(description, story_points) ==
    IF description # None
    THEN IF story_points # <<>>
         THEN [description |-> ADFFormatter_format_text(description),
               points |-> story_points[1]]
         ELSE [description |-> ADFFormatter_format_text(description)]
    ELSE IF story_points # <<>>
         THEN [points |-> story_points[1]]
         ELSE EmptyJson

JiraAdapter_update_subtask(w, issue_key, description, story_points) ==
    IF adapter.dry_run THEN Return(w, TRUE)
    ELSE IF UpdateSubtaskFields(description, story_points) = EmptyJson THEN Return(w, TRUE)
    ELSE Only({IF r.exc THEN r
               ELSE Return(r.w, TRUE) :
                 r \in {JiraApiClient_put(w, IssueEndpoint(issue_key),
                                [fields |-> UpdateSubtaskFields(description, story_points)])}})

JiraAdapter_add_comment(w, issue_key, body) ==
    IF adapter.dry_run THEN Return(w, TRUE)
    ELSE Only({IF r.exc THEN r
               ELSE Return(r.w, TRUE) :
                 r \in {JiraApiClient_post(w, CommentEndpoint(issue_key), [body |-> body])}})

W_resolved == <<"r","e","s","o","l","v","e","d">>
W_done     == <<"d","o","n","e">>
W_closed   == <<"c","l","o","s","e","d">>
W_progress == <<"p","r","o","g","r","e","s","s">>
W_open     == <<"o","p","e","n">>

\* the payload of one transition
TransitionPayload(transition_id, resolution) ==
    IF resolution # None
    THEN [transition |-> [id |-> transition_id], fields |-> [resolution |-> resolution]]
    ELSE [transition |-> [id |-> transition_id]]

\* JiraAdapter._do_transition: posts one transition, IssueTrackerError -> False
JiraAdapter_do_transition(w, issue_key, transition_id, resolution) ==
    Only({Return(r.w, ~r.exc) :
            r \in {JiraApiClient_post(w, TransitionsEndpoint(issue_key),
                            TransitionPayload(transition_id, resolution))}})

\* a faulty path table that takes "in progress" for "open"
TransitionPath_stopping_at_open(target_lower) ==
    IF Contains(target_lower, W_resolved) \/ Contains(target_lower, W_done)
    THEN <<[from |-> ST_Analyze, id |-> "7", resolution |-> None],
           [from |-> ST_Open, id |-> "4", resolution |-> None],
           [from |-> ST_InProgress, id |-> "5", resolution |-> "Done"]>>
    ELSE IF Contains(target_lower, W_progress) \/ Contains(target_lower, W_open)
    THEN <<[from |-> ST_Analyze, id |-> "7", resolution |-> None]>>
    ELSE <<>>

\* the path transition_issue walks for a target, <<>> for an unknown target
TransitionPath(target_lower) ==
    IF Contains(target_lower, W_resolved) \/ Contains(target_lower, W_done)
    THEN <<[from |-> ST_Analyze, id |-> "7", resolution |-> None],
           [from |-> ST_Open, id |-> "4", resolution |-> None],
           [from |-> ST_InProgress, id |-> "5", resolution |-> "Done"]>>
    ELSE IF Contains(target_lower, W_progress)
    THEN <<[from |-> ST_Analyze, id |-> "7", resolution |-> None],
           [from |-> ST_Open, id |-> "4", resolution |-> None]>>
    ELSE IF Contains(target_lower, W_open)
    THEN <<[from |-> ST_Analyze, id |-> "7", resolution |-> None]>>
    ELSE <<>>

\* a faulty loop that posts every step of the path
RECURSIVE TransitionSteps_posting_every_step(_, _, _, _)
TransitionSteps_posting_every_step(w, issue_key, path, target_lower) ==
    IF path = <<>>
    THEN Only({IF final.exc THEN final
               ELSE Return(final.w, Contains(Lower(final.val), target_lower)) :
                 final \in {JiraAdapter_get_issue_status(w, issue_key)}})
    ELSE Only({IF current.exc THEN current
               ELSE IF TRUE
                THEN Only({IF ~t.val THEN Return(t.w, FALSE)
                                     ELSE TransitionSteps_posting_every_step(t.w, issue_key, Tail(path),
                                                          target_lower) :
                             t \in {JiraAdapter_do_transition(current.w, issue_key, Head(path).id,
                                                    Head(path).resolution)}})
                ELSE TransitionSteps_posting_every_step(current.w, issue_key, Tail(path), target_lower) :
                 current \in {JiraAdapter_get_issue_status(w, issue_key)}})

\* a faulty loop that goes on after a transition that failed
RECURSIVE TransitionSteps_ignoring_failure(_, _, _, _)
TransitionSteps_ignoring_failure(w, issue_key, path, target_lower) ==
    IF path = <<>>
    THEN Only({IF final.exc THEN final
               ELSE Return(final.w, Contains(Lower(final.val), target_lower)) :
                 final \in {JiraAdapter_get_issue_status(w, issue_key)}})
    ELSE Only({IF current.exc THEN current
               ELSE IF current.val = Head(path).from
                THEN Only({IF FALSE THEN Return(t.w, FALSE)
                                     ELSE TransitionSteps_ignoring_failure(t.w, issue_key, Tail(path),
                                                          target_lower) :
                             t \in {JiraAdapter_do_transition(current.w, issue_key, Head(path).id,
                                                    Head(path).resolution)}})
                ELSE TransitionSteps_ignoring_failure(current.w, issue_key, Tail(path), target_lower) :
                 current \in {JiraAdapter_get_issue_status(w, issue_key)}})

\* a faulty verification that wants the final status to be the target
RECURSIVE TransitionSteps_final_equality(_, _, _, _)
TransitionSteps_final_equality(w, issue_key, path, target_lower) ==
    IF path = <<>>
    THEN Only({IF final.exc THEN final
               ELSE Return(final.w, Lower(final.val) = target_lower) :
                 final \in {JiraAdapter_get_issue_status(w, issue_key)}})
    ELSE Only({IF current.exc THEN current
               ELSE IF current.val = Head(path).from
                THEN Only({IF ~t.val THEN Return(t.w, FALSE)
                                     ELSE TransitionSteps_final_equality(t.w, issue_key, Tail(path),
                                                          target_lower) :
                             t \in {JiraAdapter_do_transition(current.w, issue_key, Head(path).id,
                                                    Head(path).resolution)}})
                ELSE TransitionSteps_final_equality(current.w, issue_key, Tail(path), target_lower) :
                 current \in {JiraAdapter_get_issue_status(w, issue_key)}})

\* the loop "for from_status, transition_id, resolution in path" and the
\* verification of the final status that follows it
RECURSIVE TransitionSteps(_, _, _, _)
TransitionSteps(w, issue_key, path, target_lower) ==
    IF path = <<>>
    THEN Only({IF final.exc THEN final
               ELSE Return(final.w, Contains(Lower(final.val), target_lower)) :
                 final \in {JiraAdapter_get_issue_status(w, issue_key)}})
    ELSE Only({IF current.exc THEN current
               ELSE IF current.val = Head(path).from
                THEN Only({IF ~t.val THEN Return(t.w, FALSE)
                                     ELSE TransitionSteps(t.w, issue_key, Tail(path),
                                                          target_lower) :
                             t \in {JiraAdapter_do_transition(current.w, issue_key, Head(path).id,
                                                    Head(path).resolution)}})
                ELSE TransitionSteps(current.w, issue_key, Tail(path), target_lower) :
                 current \in {JiraAdapter_get_issue_status(w, issue_key)}})

JiraAdapter_transition_issue(w, issue_key, target_status) ==
    IF adapter.dry_run THEN Return(w, TRUE)
    ELSE Only({IF current.exc THEN current
               ELSE IF Lower(current.val) = Lower(target_status) THEN Return(current.w, TRUE)
                ELSE IF TransitionPath(Lower(target_status)) = <<>>
                THEN Return(current.w, FALSE)
                ELSE TransitionSteps(current.w, issue_key,
                                     TransitionPath(Lower(target_status)),
                                     Lower(target_status)) :
                 current \in {JiraAdapter_get_issue_status(w, issue_key)}})

----------------------------------------------------------------------------
(* The tracker port as the orchestrator and its commands call it: every    *)
(* call is entered in the call log with the phase that made it.            *)

Logged(w, op) == [w EXCEPT !.log = Append(@, [phase |-> w.phase, op |-> op])]

WriteOps == {"update_issue_description", "create_subtask", "update_subtask",
             "add_comment", "transition_issue"}

----------------------------------------------------------------------------
(* SyncResult (application/sync/orchestrator.py). *)

SyncResult(dry_run) ==
    [success |-> TRUE, dry_run |-> dry_run,
     stories_matched |-> 0, stories_updated |-> 0, subtasks_created |-> 0,
     subtasks_updated |-> 0, comments_added |-> 0, statuses_updated |-> 0,
     matched_stories |-> <<>>, unmatched_stories |-> <<>>,
     errors |-> <<>>, warnings |-> <<>>]

\* a faulty add_error that leaves success alone
SyncResult_add_error_keeping_success(res, error) ==
    [res EXCEPT !.errors = Append(@, error)]

SyncResult_add_error(res, error) ==
    [res EXCEPT !.errors = Append(@, error), !.success = FALSE]

SyncResult_add_warning(res, warning) ==
    [res EXCEPT !.warnings = Append(@, warning)]

----------------------------------------------------------------------------
(* Commands (application/commands): a command in dry-run reports success   *)
(* without calling the tracker; otherwise it calls the tracker's write     *)
(* operation and turns an IssueTrackerError into a failed CommandResult.   *)
(* A command returns [w, result] with result = [success, dry_run, error].  *)

CommandResult_ok(dry_run) == [success |-> TRUE, dry_run |-> dry_run, error |-> NoError]
CommandResult_fail(error) == [success |-> FALSE, dry_run |-> FALSE, error |-> error]

\* what execute() makes of the tracker call's outcome r
CommandOutcome(r, op, issue_key, succeeded) ==
    IF r.exc \/ ~succeeded
    THEN [w |-> [r.w EXCEPT !.opfail = @ + 1], result |-> CommandResult_fail(<<op, issue_key>>)]
    ELSE [w |-> r.w, result |-> CommandResult_ok(FALSE)]

DryRunOutcome(w) == [w |-> w, result |-> CommandResult_ok(TRUE)]

UpdateDescriptionCommand_execute(w, issue_key, description, dry_run) ==
    IF issue_key = NoKey \/ description = NoneRec
    THEN [w |-> [w EXCEPT !.opfail = @ + 1],
          result |-> CommandResult_fail(<<"validate", issue_key>>)]
    ELSE IF dry_run THEN DryRunOutcome(w)
    ELSE CommandOutcome(
            JiraAdapter_update_issue_description(Logged(w, "update_issue_description"),
                                                 issue_key, description),
            "update_issue_description", issue_key, TRUE)

CreateSubtaskCommand_execute(w, parent_key, project_key, summary, description, story_points, dry_run) ==
    IF dry_run THEN DryRunOutcome(w)
    ELSE CommandOutcome(
            JiraAdapter_create_subtask(Logged(w, "create_subtask"), parent_key, summary,
                                       description, project_key, story_points),
            "create_subtask", parent_key, TRUE)

UpdateSubtaskCommand_execute(w, issue_key, description, story_points, dry_run) ==
    IF dry_run THEN DryRunOutcome(w)
    ELSE CommandOutcome(
            JiraAdapter_update_subtask(Logged(w, "update_subtask"), issue_key,
                                       description, <<story_points>>),
            "update_subtask", issue_key, TRUE)

AddCommentCommand_execute(w, issue_key, body, dry_run) ==
    IF dry_run THEN DryRunOutcome(w)
    ELSE CommandOutcome(
            JiraAdapter_add_comment(Logged(w, "add_comment"), issue_key, body),
            "add_comment", issue_key, TRUE)

TransitionStatusCommand_execute(w, issue_key, target_status, dry_run) ==
    IF dry_run THEN DryRunOutcome(w)
    ELSE Only({CommandOutcome(r, "transition_issue", issue_key, r.exc \/ r.val) :
                 r \in {JiraAdapter_transition_issue(Logged(w, "transition_issue"), issue_key,
                                           target_status)}})

----------------------------------------------------------------------------
(* Domain entities the orchestrator relies on (core/domain/entities). *)

\* UserStory.matches_title: equal normalized titles, or one containing the other
UserStory_matches_title(title, other_title) ==
    \/ UserStory_normalize_title(title) = UserStory_normalize_title(other_title)
    \/ Contains(UserStory_normalize_title(other_title), UserStory_normalize_title(title))
    \/ Contains(UserStory_normalize_title(title), UserStory_normalize_title(other_title))

\* Status.is_complete
Status_is_complete(status) == status = "DONE"

----------------------------------------------------------------------------
(* SyncOrchestrator (application/sync/orchestrator.py). *)

\* the index of the first issue of _jira_issues the story matches, 0 when
\* there is none
FirstMatch(md_story, jira_issues) ==
    LET hits == {i \in DOMAIN jira_issues :
                    UserStory_matches_title(md_story.title, jira_issues[i].summary)}
    IN IF hits = {} THEN 0 ELSE CHOOSE i \in hits : \A j \in hits : i <= j

\* the body of the loop of _match_stories; m = [matches, res], found is the
\* index of matched_issue, 0 for None
MatchOne(m, md_story, jira_issues, found) ==
    IF found # 0
    THEN [matches |-> DictSet(m.matches, md_story.id, jira_issues[found].key),
          res |-> [m.res EXCEPT !.matched_stories =
                       Append(@, <<md_story.id, jira_issues[found].key>>)]]
    ELSE [matches |-> m.matches,
          res |-> SyncResult_add_warning(
                     [m.res EXCEPT !.unmatched_stories = Append(@, md_story.id)],
                     <<"Could not match story", md_story.id>>)]

\* the loop of _match_stories over _md_stories
RECURSIVE MatchLoop(_, _, _)
MatchLoop(md_stories, jira_issues, m) ==
    IF md_stories = <<>> THEN m
    ELSE MatchLoop(Tail(md_stories), jira_issues,
                   MatchOne(m, Head(md_stories), jira_issues,
                            FirstMatch(Head(md_stories), jira_issues)))

\* _match_stories: returns the new _matches and the updated result
SyncOrchestrator_match_stories(md_stories, jira_issues, res) ==
    Only({[matches |-> m.matches,
                     res |-> [m.res EXCEPT !.stories_matched = Len(m.matches)]] :
            m \in {MatchLoop(md_stories, jira_issues, [matches |-> <<>>, res |-> res])}})

\* a faulty analyze() that goes on with the SyncResult of the previous call
SyncOrchestrator_analyze_keeping_result(w) ==
    Only({IF fetched.exc
            THEN [w |-> fetched.w, exc |-> TRUE, res |-> SyncResult(TRUE), md |-> doc,
                  jira |-> o_jira_issues, matches |-> o_matches]
            ELSE Only({[w |-> fetched.w, exc |-> FALSE, res |-> m.res, md |-> doc,
                                  jira |-> fetched.val, matches |-> m.matches] :
                         m \in {SyncOrchestrator_match_stories(
                            doc, fetched.val,
                            IF ret.result # NoneRec THEN ret.result ELSE SyncResult(TRUE))}}) :
            fetched \in {JiraAdapter_get_epic_children(Logged(w, "get_epic_children"), <<"P", 0>>)}})

\* analyze(): parse, fetch, match. Returns the fields it leaves in the
\* orchestrator, the SyncResult, and whether it raised.
SyncOrchestrator_analyze(w) ==
    Only({IF fetched.exc
            THEN [w |-> fetched.w, exc |-> TRUE, res |-> SyncResult(TRUE), md |-> doc,
                  jira |-> o_jira_issues, matches |-> o_matches]
            ELSE Only({[w |-> fetched.w, exc |-> FALSE, res |-> m.res, md |-> doc,
                                  jira |-> fetched.val, matches |-> m.matches] :
                         m \in {SyncOrchestrator_match_stories(doc, fetched.val, SyncResult(TRUE))}}) :
            fetched \in {JiraAdapter_get_epic_children(Logged(w, "get_epic_children"), <<"P", 0>>)}})

\* a faulty execute_all that goes on after a failed command
RECURSIVE CommandBatch_execute_all_never_stopping(_, _, _)
CommandBatch_execute_all_never_stopping(b, commands, stop_on_error) ==
    IF commands = <<>> THEN b
    ELSE Only({CommandBatch_execute_all_never_stopping(
                    [w |-> c.w, results |-> Append(b.results, c.result)],
                    Tail(commands), stop_on_error) :
                 c \in {UpdateDescriptionCommand_execute(b.w, Head(commands).issue_key,
                      Head(commands).description, Head(commands).dry_run)}})

\* CommandBatch.execute_all over UpdateDescriptionCommands; b = [w, results]
RECURSIVE CommandBatch_execute_all(_, _, _)
CommandBatch_execute_all(b, commands, stop_on_error) ==
    IF commands = <<>> THEN b
    ELSE Only({IF stop_on_error /\ ~c.result.success
                THEN [w |-> c.w, results |-> Append(b.results, c.result)]
                ELSE CommandBatch_execute_all(
                        [w |-> c.w, results |-> Append(b.results, c.result)],
                        Tail(commands), stop_on_error) :
                 c \in {UpdateDescriptionCommand_execute(b.w, Head(commands).issue_key,
                      Head(commands).description, Head(commands).dry_run)}})

\* CommandBatch.executed_count
CommandBatch_executed_count(results) ==
    Cardinality({i \in DOMAIN results : results[i].success})

\* CommandBatch.failed_count
CommandBatch_failed_count(results) ==
    Cardinality({i \in DOMAIN results : ~results[i].success})

\* the commands _sync_descriptions adds to its batch
RECURSIVE DescriptionCommands(_)
DescriptionCommands(md_stories) ==
    IF md_stories = <<>> THEN <<>>
    ELSE (IF DictHas(o_matches, Head(md_stories).id) /\ Head(md_stories).description # ""
          THEN <<[issue_key |-> DictGet(o_matches, Head(md_stories).id),
                  description |-> ADFFormatter_format_story_description(Head(md_stories)),
                  dry_run |-> config.dry_run]>>
          ELSE <<>>) \o DescriptionCommands(Tail(md_stories))

\* "for cmd_result in batch.results: if not cmd_result.success: add_error"
RECURSIVE AddBatchErrors(_, _)
AddBatchErrors(res, results) ==
    IF results = <<>> THEN res
    ELSE AddBatchErrors(IF Head(results).success THEN res
                        ELSE SyncResult_add_error(res, Head(results).error),
                        Tail(results))

\* a phase returns [w, exc]: exc says that an exception left the phase
SyncOrchestrator_sync_descriptions(w) ==
    Only({[w |-> [b.w EXCEPT !.res =
                        AddBatchErrors(
                            [@ EXCEPT !.stories_updated = CommandBatch_executed_count(b.results)],
                            b.results)],
             exc |-> FALSE] :
            b \in {CommandBatch_execute_all([w |-> w, results |-> <<>>],
                                  DescriptionCommands(o_md_stories), FALSE)}})

\* existing_subtasks = {st.summary.lower(): st for st in jira_issue.subtasks}
RECURSIVE ExistingSubtasks(_, _)
ExistingSubtasks(subtasks, acc) ==
    IF subtasks = <<>> THEN acc
    ELSE ExistingSubtasks(Tail(subtasks),
                          DictSet(acc, Lower(Head(subtasks).summary), Head(subtasks)))

\* a faulty version that forgets to count a successful command
CountOrError_dropping_count(c, counter) ==
    IF c.result.success
    THEN c.w
    ELSE IF c.result.error # NoError
    THEN [c.w EXCEPT !.res = SyncResult_add_error(@, c.result.error)]
    ELSE c.w

\* "if cmd_result.success: counter += 1
\*  elif cmd_result.error: result.add_error(cmd_result.error)"
CountOrError(c, counter) ==
    IF c.result.success
    THEN [c.w EXCEPT !.res[counter] = @ + 1]
    ELSE IF c.result.error # NoError
    THEN [c.w EXCEPT !.res = SyncResult_add_error(@, c.result.error)]
    ELSE c.w

\* the body of the loop of _sync_subtasks over md_story.subtasks
SyncSubtask(w, md_subtask, issue_key, existing_subtasks) ==
    IF DictHas(existing_subtasks, Lower(md_subtask.name))
    THEN Only({IF c.result.success /\ ~c.result.dry_run
                         THEN [c.w EXCEPT !.res.subtasks_updated = @ + 1]
                         ELSE c.w :
                 c \in {UpdateSubtaskCommand_execute(
                    w, DictGet(existing_subtasks, Lower(md_subtask.name)).key,
                    md_subtask.description, md_subtask.story_points, config.dry_run)}})
    ELSE Only({CountOrError(c, "subtasks_created") :
                 c \in {CreateSubtaskCommand_execute(
                    w, issue_key, issue_key[1], md_subtask.name,
                    ADFFormatter_format_text(md_subtask.description),
                    md_subtask.story_points, config.dry_run)}})

\* the loop of _sync_subtasks over md_story.subtasks
RECURSIVE SubtaskLoop(_, _, _, _)
SubtaskLoop(w, md_subtasks, issue_key, existing_subtasks) ==
    IF md_subtasks = <<>> THEN w
    ELSE SubtaskLoop(SyncSubtask(w, Head(md_subtasks), issue_key, existing_subtasks),
                     Tail(md_subtasks), issue_key, existing_subtasks)

\* the loop of _sync_subtasks over _md_stories
RECURSIVE SubtasksStoryLoop(_, _)
SubtasksStoryLoop(w, md_stories) ==
    IF md_stories = <<>> THEN [w |-> w, exc |-> FALSE]
    ELSE IF ~DictHas(o_matches, Head(md_stories).id)
    THEN SubtasksStoryLoop(w, Tail(md_stories))
    ELSE Only({IF jira_issue.exc THEN [w |-> jira_issue.w, exc |-> TRUE]
                ELSE SubtasksStoryLoop(
                        SubtaskLoop(jira_issue.w, Head(md_stories).subtasks,
                                    DictGet(o_matches, Head(md_stories).id),
                                    ExistingSubtasks(jira_issue.val.subtasks, <<>>)),
                        Tail(md_stories)) :
                 jira_issue \in {JiraAdapter_get_issue(Logged(w, "get_issue"),
                                    DictGet(o_matches, Head(md_stories).id))}})

SyncOrchestrator_sync_subtasks(w) == SubtasksStoryLoop(w, o_md_stories)

\* a faulty test that looks for the phrase "Commits Table"
HasRelatedCommits_other_phrase(comment) ==
    "Commits Table" \in
        {JsonGet(comment, "body", ADFFormatter_format_text("")).heading}
        \cup Range(JsonGet(comment, "body", ADFFormatter_format_text("")).rows)

\* "Related Commits" in str(c.get("body", ""))
HasRelatedCommits(comment) ==
    "Related Commits" \in
        {JsonGet(comment, "body", ADFFormatter_format_text("")).heading}
        \cup Range(JsonGet(comment, "body", ADFFormatter_format_text("")).rows)

\* the body of the loop of _sync_comments, for a matched story with commits
SyncStoryComments(w, md_story, issue_key) ==
    Only({IF existing_comments.exc THEN existing_comments
            ELSE IF \E i \in DOMAIN existing_comments.val :
                        HasRelatedCommits(existing_comments.val[i])
            THEN existing_comments
            ELSE Only({Return(CountOrError(c, "comments_added"), None) :
                         c \in {AddCommentCommand_execute(
                            existing_comments.w, issue_key,
                            ADFFormatter_format_commits_table(md_story.commits),
                            config.dry_run)}}) :
            existing_comments \in {JiraAdapter_get_issue_comments(Logged(w, "get_issue_comments"), issue_key)}})

\* the loop of _sync_comments over _md_stories
RECURSIVE CommentsStoryLoop(_, _)
CommentsStoryLoop(w, md_stories) ==
    IF md_stories = <<>> THEN [w |-> w, exc |-> FALSE]
    ELSE IF ~DictHas(o_matches, Head(md_stories).id) \/ Head(md_stories).commits = <<>>
    THEN CommentsStoryLoop(w, Tail(md_stories))
    ELSE Only({IF r.exc THEN [w |-> r.w, exc |-> TRUE]
                         ELSE CommentsStoryLoop(r.w, Tail(md_stories)) :
                 r \in {SyncStoryComments(w, Head(md_stories), DictGet(o_matches, Head(md_stories).id))}})

SyncOrchestrator_sync_comments(w) == CommentsStoryLoop(w, o_md_stories)

\* a faulty loop that compares the status as it is spelled
RECURSIVE StatusSubtaskLoop_case_sensitive(_, _, _)
StatusSubtaskLoop_case_sensitive(w, jira_subtasks, target_status) ==
    IF jira_subtasks = <<>> THEN w
    ELSE IF Head(jira_subtasks).status \in {W_resolved, W_done, W_closed}
    THEN StatusSubtaskLoop_case_sensitive(w, Tail(jira_subtasks), target_status)
    ELSE Only({StatusSubtaskLoop_case_sensitive(CountOrError(c, "statuses_updated"),
                                                Tail(jira_subtasks), target_status) :
                 c \in {TransitionStatusCommand_execute(w, Head(jira_subtasks).key, target_status,
                                              config.dry_run)}})

\* the loop of _sync_statuses over jira_issue.subtasks
RECURSIVE StatusSubtaskLoop(_, _, _)
StatusSubtaskLoop(w, jira_subtasks, target_status) ==
    IF jira_subtasks = <<>> THEN w
    ELSE IF Lower(Head(jira_subtasks).status) \in {W_resolved, W_done, W_closed}
    THEN StatusSubtaskLoop(w, Tail(jira_subtasks), target_status)
    ELSE Only({StatusSubtaskLoop(CountOrError(c, "statuses_updated"),
                                           Tail(jira_subtasks), target_status) :
                 c \in {TransitionStatusCommand_execute(w, Head(jira_subtasks).key, target_status,
                                              config.dry_run)}})

\* a faulty loop that takes the subtasks from the issues analyze() fetched
RECURSIVE StatusStoryLoop_from_analysis(_, _, _)
StatusStoryLoop_from_analysis(w, md_stories, target_status) ==
    IF md_stories = <<>> THEN [w |-> w, exc |-> FALSE]
    ELSE IF ~DictHas(o_matches, Head(md_stories).id)
            \/ ~Status_is_complete(Head(md_stories).status)
    THEN StatusStoryLoop_from_analysis(w, Tail(md_stories), target_status)
    ELSE Only({StatusStoryLoop_from_analysis(
                    StatusSubtaskLoop(w, jira_issue.subtasks, target_status),
                    Tail(md_stories), target_status) :
                 jira_issue \in {x \in Range(o_jira_issues) :
                                    x.key = DictGet(o_matches, Head(md_stories).id)}})

\* the loop of _sync_statuses over _md_stories
RECURSIVE StatusStoryLoop(_, _, _)
StatusStoryLoop(w, md_stories, target_status) ==
    IF md_stories = <<>> THEN [w |-> w, exc |-> FALSE]
    ELSE IF ~DictHas(o_matches, Head(md_stories).id)
            \/ ~Status_is_complete(Head(md_stories).status)
    THEN StatusStoryLoop(w, Tail(md_stories), target_status)
    ELSE Only({IF jira_issue.exc THEN [w |-> jira_issue.w, exc |-> TRUE]
                ELSE StatusStoryLoop(
                        StatusSubtaskLoop(jira_issue.w, jira_issue.val.subtasks,
                                          target_status),
                        Tail(md_stories), target_status) :
                 jira_issue \in {JiraAdapter_get_issue(Logged(w, "get_issue"),
                                    DictGet(o_matches, Head(md_stories).id))}})

SyncOrchestrator_sync_statuses(w) == StatusStoryLoop(w, o_md_stories, ST_Resolved)

----------------------------------------------------------------------------
(* Spec: the orchestrator's entry points analyze() and sync(). sync() is    *)
(* one call whose five phases are the steps of the state machine.          *)

\* the record a step threads through its tracker calls
World(phase, F, call_log, muts, res, opfail) ==
    [remote |-> remote, net |-> 0, F |-> F, muts |-> muts, user |-> current_user,
     log |-> call_log, phase |-> phase, res |-> res, opfail |-> opfail, trace |-> <<>>]

\* the requests of a step that may fail: none, or one of those the step
\* issues, while fewer than MaxFailures requests have failed
FailSets(net_without_failure) ==
    {{}} \cup (IF failures < MaxFailures
               THEN {{n} : n \in 1..net_without_failure}
               ELSE {})

Failed(w) == Cardinality(w.F \cap (1..w.net))

\* no call has returned yet; no sync() call is in progress
NoRet == [op |-> "none", raised |-> FALSE, phase |-> 0, result |-> NoneRec]
NoResult == NoneRec

\* the last two entries of a sequence
LastTwo(s) == IF Len(s) <= 2 THEN s ELSE SubSeq(s, Len(s) - 1, Len(s))

\* the phases a configuration may enable
PhaseFlags ==
    [sync_descriptions : BOOLEAN, sync_subtasks : BOOLEAN,
     sync_comments : BOOLEAN, sync_statuses : BOOLEAN]

SyncConfig(dry_run, flags) ==
    [dry_run |-> dry_run, sync_descriptions |-> flags.sync_descriptions,
     sync_subtasks |-> flags.sync_subtasks, sync_comments |-> flags.sync_comments,
     sync_statuses |-> flags.sync_statuses]

OrchestratorInit ==
    /\ config \in {SyncConfig(d, f) : d \in BOOLEAN, f \in PhaseFlags}
    /\ adapter_arg \in BOOLEAN
    /\ adapter = JiraAdapter_init(adapter_arg)
    /\ current_user = NoneRec
    /\ doc \in SeqsUpTo(StoryPool, MaxStories)
    /\ remote \in RemotePool
    /\ remote_init = remote
    /\ o_md_stories = <<>>
    /\ o_jira_issues = <<>>
    /\ o_matches = <<>>
    /\ result = NoResult
    /\ pc = "idle"
    /\ log = <<>>
    /\ mutations = <<>>
    /\ failures = 0
    /\ op_failures = 0
    /\ ret = NoRet
    /\ prev_ret = NoRet
    /\ analyses = <<>>
    /\ calls = 0

\* the variables of the matcher model, at rest
MatchIdle ==
    /\ m_md = <<>>
    /\ m_jira = <<>>
    /\ m_matches = <<>>
    /\ m_pc = "unused"

\* the variables of the transition model, at rest
TransitionIdle == t_last = NoneRec

\* the variables of the hook model, at rest
HookIdle ==
    /\ h_hooks = <<>>
    /\ h_registered = 0
    /\ h_trace = <<>>
    /\ h_context = NoneRec

\* the variables of the event bus model, at rest
BusIdle ==
    /\ e_handlers = <<>>
    /\ e_history = <<>>
    /\ e_called = <<>>
    /\ e_outcome = "none"

\* the variables of the batch model, at rest
BatchIdle ==
    /\ b_commands = <<>>
    /\ b_stop_on_error = FALSE
    /\ b_results = <<>>
    /\ b_pc = "unused"

\* the variables of the parser model, at rest
ParseIdle ==
    /\ p_content = <<>>
    /\ p_stories = <<>>
    /\ p_pc = "unused"

\* the variables of the formatter model, at rest
FormatIdle ==
    /\ f_text = <<>>
    /\ f_doc = NoneRec
    /\ f_pc = "unused"

\* the variables of the legacy engine model, at rest
LegacyIdle ==
    /\ l_engine = NoneRec
    /\ l_md = <<>>
    /\ l_jira = NoneRec
    /\ l_events = <<>>
    /\ l_calls = <<>>

Init ==
    /\ OrchestratorInit
    /\ MatchIdle /\ TransitionIdle /\ HookIdle /\ BusIdle /\ BatchIdle /\ ParseIdle /\ FormatIdle /\ LegacyIdle

\* what a step leaves of the world it threaded
Commit(w) ==
    /\ remote' = w.remote
    /\ current_user' = w.user
    /\ log' = w.log
    /\ mutations' = w.muts
    /\ failures' = failures + Failed(w)
    /\ op_failures' = w.opfail

\* what analyze() leaves in the orchestrator
CommitAnalysis(a) ==
    /\ Commit(a.w)
    /\ o_md_stories' = a.md
    /\ o_jira_issues' = a.jira
    /\ o_matches' = a.matches

\* analyze(markdown_path, epic_key), called from outside
Analyze ==
    /\ pc = "idle"
    /\ calls < MaxCalls
    /\ calls' = calls + 1
    /\ prev_ret' = ret
    /\ \E F \in FailSets(1) :
       \E a \in {SyncOrchestrator_analyze(World(1, F, <<>>, <<>>, NoResult, 0))} :
          /\ F \subseteq 1..a.w.net
          /\ CommitAnalysis(a)
          /\ ret' = [op |-> "analyze", raised |-> a.exc, phase |-> 1,
                     result |-> IF a.exc THEN NoneRec ELSE a.res]
          /\ analyses' = IF a.exc THEN analyses
                         ELSE LastTwo(Append(analyses, [remote |-> remote, result |-> a.res]))
    /\ UNCHANGED <<config, adapter_arg, adapter, doc, remote_init, result, pc, other_vars>>

\* sync(): the result is created, SyncStarted is published, phase 1 runs
\* analyze() and copies the match table into the result
SyncStart ==
    /\ pc = "idle"
    /\ calls < MaxCalls
    /\ calls' = calls + 1
    /\ prev_ret' = ret
    /\ \E F \in FailSets(1) :
       \E a \in {SyncOrchestrator_analyze(World(1, F, <<>>, <<>>, NoResult, 0))} :
          /\ F \subseteq 1..a.w.net
          /\ CommitAnalysis(a)
          /\ IF a.exc
             THEN /\ ret' = [op |-> "sync", raised |-> TRUE, phase |-> 1, result |-> NoneRec]
                  /\ result' = NoResult
                  /\ pc' = "idle"
             ELSE /\ ret' = NoRet
                  /\ result' = [SyncResult(config.dry_run) EXCEPT
                                    !.stories_matched = Len(a.matches),
                                    !.matched_stories = a.matches]
                  /\ pc' = "descriptions"
    /\ UNCHANGED <<config, adapter_arg, adapter, doc, remote_init, analyses, other_vars>>

\* a phase that is switched off is skipped
SkipPhase(next) ==
    /\ pc' = next
    /\ UNCHANGED <<remote, current_user, log, mutations, failures, op_failures, result, ret>>

\* a phase ran: an exception that leaves the phase leaves sync()
EndPhase(out, number, next) ==
    /\ Commit(out.w)
    /\ IF out.exc
       THEN /\ ret' = [op |-> "sync", raised |-> TRUE, phase |-> number, result |-> NoneRec]
            /\ result' = NoResult
            /\ pc' = "idle"
       ELSE /\ ret' = ret
            /\ result' = out.w.res
            /\ pc' = next

\* what a phase leaves alone
PhaseFrame ==
    UNCHANGED <<config, adapter_arg, adapter, doc, remote_init, o_md_stories,
                o_jira_issues, o_matches, prev_ret, analyses, calls, other_vars>>

\* Phase 2: Update descriptions
SyncDescriptions ==
    /\ pc = "descriptions"
    /\ IF ~config.sync_descriptions THEN SkipPhase("subtasks")
       ELSE \E F \in FailSets(SyncOrchestrator_sync_descriptions(
                                World(2, {}, log, mutations, result, op_failures)).w.net) :
            \E out \in {SyncOrchestrator_sync_descriptions(
                            World(2, F, log, mutations, result, op_failures))} :
               F \subseteq 1..out.w.net /\ EndPhase(out, 2, "subtasks")
    /\ PhaseFrame

\* a faulty phase 3 that does not look at its flag
SyncSubtasks_ignoring_flag ==
    /\ pc = "subtasks"
    /\ \E F \in FailSets(SyncOrchestrator_sync_subtasks(
                            World(3, {}, log, mutations, result, op_failures)).w.net) :
       \E out \in {SyncOrchestrator_sync_subtasks(
                       World(3, F, log, mutations, result, op_failures))} :
          F \subseteq 1..out.w.net /\ EndPhase(out, 3, "comments")
    /\ PhaseFrame

\* Phase 3: Sync subtasks
SyncSubtasks ==
    /\ pc = "subtasks"
    /\ IF ~config.sync_subtasks THEN SkipPhase("comments")
       ELSE \E F \in FailSets(SyncOrchestrator_sync_subtasks(
                                World(3, {}, log, mutations, result, op_failures)).w.net) :
            \E out \in {SyncOrchestrator_sync_subtasks(
                            World(3, F, log, mutations, result, op_failures))} :
               F \subseteq 1..out.w.net /\ EndPhase(out, 3, "comments")
    /\ PhaseFrame

\* Phase 4: Add commit comments
SyncComments ==
    /\ pc = "comments"
    /\ IF ~config.sync_comments THEN SkipPhase("statuses")
       ELSE \E F \in FailSets(SyncOrchestrator_sync_comments(
                                World(4, {}, log, mutations, result, op_failures)).w.net) :
            \E out \in {SyncOrchestrator_sync_comments(
                            World(4, F, log, mutations, result, op_failures))} :
               F \subseteq 1..out.w.net /\ EndPhase(out, 4, "statuses")
    /\ PhaseFrame

\* Phase 5: Sync statuses
SyncStatuses ==
    /\ pc = "statuses"
    /\ IF ~config.sync_statuses THEN SkipPhase("complete")
       ELSE \E F \in FailSets(SyncOrchestrator_sync_statuses(
                                World(5, {}, log, mutations, result, op_failures)).w.net) :
            \E out \in {SyncOrchestrator_sync_statuses(
                            World(5, F, log, mutations, result, op_failures))} :
               F \subseteq 1..out.w.net /\ EndPhase(out, 5, "complete")
    /\ PhaseFrame

\* SyncCompleted is published and sync() returns its result
SyncReturn ==
    /\ pc = "complete"
    /\ ret' = [op |-> "sync", raised |-> FALSE, phase |-> 5, result |-> result]
    /\ result' = NoResult
    /\ pc' = "idle"
    /\ UNCHANGED <<config, adapter_arg, adapter, current_user, doc, remote, remote_init,
                   o_md_stories, o_jira_issues, o_matches, log, mutations, failures,
                   op_failures, prev_ret, analyses, calls, other_vars>>

Next ==
    \/ Analyze
    \/ SyncStart
    \/ SyncDescriptions
    \/ SyncSubtasks
    \/ SyncComments
    \/ SyncStatuses
    \/ SyncReturn

Spec == Init /\ [][Next]_vars

----------------------------------------------------------------------------
(* MatchSpec: one matching pass of the legacy engine over bounded inputs. *)

IssueKeys == <<"P-1", "P-2", "P-3", "P-4">>

\* the variables of the orchestrator model, at rest
OrchestratorIdle ==
    /\ config = SyncConfig(TRUE, [sync_descriptions |-> TRUE, sync_subtasks |-> TRUE,
                                  sync_comments |-> TRUE, sync_statuses |-> TRUE])
    /\ adapter_arg = TRUE
    /\ adapter = JiraAdapter_init(TRUE)
    /\ current_user = NoneRec
    /\ doc = <<>>
    /\ remote = RemoteEmpty
    /\ remote_init = RemoteEmpty
    /\ o_md_stories = <<>>
    /\ o_jira_issues = <<>>
    /\ o_matches = <<>>
    /\ result = NoResult
    /\ pc = "unused"
    /\ log = <<>>
    /\ mutations = <<>>
    /\ failures = 0
    /\ op_failures = 0
    /\ ret = NoRet
    /\ prev_ret = NoRet
    /\ analyses = <<>>
    /\ calls = 0

\* remote issues arrive ordered by key, each key once (ORDER BY key ASC)
MatchInit ==
    /\ m_md \in SeqsUpTo([id : StoryIds, title : LocalTitles], MaxLocal)
    /\ m_jira \in {[i \in DOMAIN ts |-> [key |-> IssueKeys[i], summary |-> ts[i]]] :
                      ts \in SeqsUpTo(RemoteTitles, MaxRemote)}
    /\ m_matches = <<>>
    /\ m_pc = "input"
    /\ OrchestratorIdle
    /\ TransitionIdle /\ HookIdle /\ BusIdle /\ BatchIdle /\ ParseIdle /\ FormatIdle /\ LegacyIdle

Match ==
    /\ m_pc = "input"
    /\ m_matches' = Legacy_match_stories(m_md, m_jira)
    /\ m_pc' = "matched"
    /\ UNCHANGED <<m_md, m_jira, o_vars, t_vars, h_vars, e_vars, b_vars, p_vars, f_vars, l_vars>>

MatchNext == Match

MatchSpec == MatchInit /\ [][MatchNext]_vars

----------------------------------------------------------------------------
(* TransitionSpec: JiraAdapter.transition_issue called on one subtask, for *)
(* every status the subtask may be in and a set of targets.               *)

T_Done    == <<"D","o","n","e">>

\* the statuses the subtask starts in and the targets asked for
TransitionStatuses == {ST_Analyze, ST_Open, ST_InProgress, ST_Resolved, ST_Closed, W_open}
TransitionTargets ==
    {ST_Resolved, W_resolved, T_Done, ST_InProgress, W_progress, ST_Open, ST_Closed,
     ST_Analyze}

TransitionKey == <<"P", 2>>

\* a workflow without the transition 4 out of Open
WorkflowWithoutStart ==
    {[from |-> ST_Analyze, id |-> "7", to |-> ST_Open],
     [from |-> ST_Open, id |-> "5", to |-> ST_Resolved],
     [from |-> ST_InProgress, id |-> "5", to |-> ST_Resolved]}

\* a workflow whose transition 7 leads from Analyze to In Progress
WorkflowSkippingOpen ==
    {[from |-> ST_Analyze, id |-> "7", to |-> ST_InProgress],
     [from |-> ST_Open, id |-> "4", to |-> ST_InProgress],
     [from |-> ST_InProgress, id |-> "5", to |-> ST_Resolved]}

TransitionWorkflows == {DEFAULT_TRANSITIONS, WorkflowWithoutStart, WorkflowSkippingOpen}

\* an epic whose issue has one subtask in the given status
TransitionRemote(status, workflow) ==
    [children |-> <<RemoteIssue(1, T_AddLogin, NoneRec,
                                <<RemoteSubtask(2, N_WriteTests, status)>>, <<>>)>>,
     seqno |-> 10, workflow |-> workflow]

\* an adapter over a remote, with no orchestrator call made
TrackerInit(remotes) ==
    /\ config = SyncConfig(FALSE, [sync_descriptions |-> TRUE, sync_subtasks |-> TRUE,
                                   sync_comments |-> TRUE, sync_statuses |-> TRUE])
    /\ adapter_arg \in BOOLEAN
    /\ adapter = JiraAdapter_init(adapter_arg)
    /\ current_user = NoneRec
    /\ doc = <<>>
    /\ remote \in remotes
    /\ remote_init = remote
    /\ o_md_stories = <<>>
    /\ o_jira_issues = <<>>
    /\ o_matches = <<>>
    /\ result = NoResult
    /\ pc = "unused"
    /\ log = <<>>
    /\ mutations = <<>>
    /\ failures = 0
    /\ op_failures = 0
    /\ ret = NoRet
    /\ prev_ret = NoRet
    /\ analyses = <<>>
    /\ calls = 0

TransitionInit ==
    /\ TrackerInit({TransitionRemote(s, wf) : s \in TransitionStatuses, wf \in TransitionWorkflows})
    /\ t_last = NoneRec
    /\ MatchIdle /\ HookIdle /\ BusIdle /\ BatchIdle /\ ParseIdle /\ FormatIdle /\ LegacyIdle

\* transition_issue(issue_key, target_status), called from outside
TransitionIssue ==
    /\ calls < MaxCalls
    /\ calls' = calls + 1
    /\ \E target \in TransitionTargets :
       \E F \in FailSets(JiraAdapter_transition_issue(
                            World(0, {}, <<>>, <<>>, NoResult, 0), TransitionKey, target).w.net) :
       \E out \in {JiraAdapter_transition_issue(
                      World(0, F, <<>>, <<>>, NoResult, 0), TransitionKey, target)} :
          /\ F \subseteq 1..out.w.net
          /\ Commit(out.w)
          /\ t_last' = [target |-> target, before |-> IssueOf(remote, TransitionKey).status,
                        exc |-> out.exc, val |-> out.val, failed |-> Failed(out.w),
                        trace |-> out.w.trace]
    /\ UNCHANGED <<config, adapter_arg, adapter, doc, remote_init, o_md_stories,
                   o_jira_issues, o_matches, result, pc, ret, prev_ret, analyses,
                   m_vars, h_vars, e_vars, b_vars, p_vars, f_vars, l_vars>>

TransitionNext == TransitionIssue

TransitionSpec == TransitionInit /\ [][TransitionNext]_vars

----------------------------------------------------------------------------
(* HookSpec: HookManager (plugins/hooks.py). A handler is one of four     *)
(* kinds: it returns, it raises, it calls context.cancel(), or it calls    *)
(* context.cancel() and then raises. A hook carries the number of the      *)
(* register() call that brought it in (seq), which stands for the object.  *)

MaxRegistrations == 3   \* register() calls in one run

\* HookPoint, in the order of the Enum
HookPoints == <<"BEFORE_SYNC", "AFTER_SYNC">>
HookNames == {"audit", "notify"}
HookPriorities == {50, 100}
HandlerKinds == {"returns", "raises", "cancels", "cancels_raises"}

Hook(name, hook_point, kind, priority, seq) ==
    [name |-> name, hook_point |-> hook_point, handler |-> kind,
     priority |-> priority, seq |-> seq]

\* Hook.__lt__
Hook_lt(self, other) == self.priority < other.priority

\* one step of list.sort(): x goes before the first element it is less than
RECURSIVE InsertSorted(_, _)
InsertSorted(sorted, x) ==
    IF sorted = <<>> THEN <<x>>
    ELSE IF Hook_lt(x, Head(sorted)) THEN <<x>> \o sorted
    ELSE <<Head(sorted)>> \o InsertSorted(Tail(sorted), x)

\* list.sort(): stable, comparing with __lt__ only
RECURSIVE ListSort(_, _)
ListSort(list, sorted) ==
    IF list = <<>> THEN sorted
    ELSE ListSort(Tail(list), InsertSorted(sorted, Head(list)))

\* a faulty register() that appends without sorting
HookManager_register_unsorted(hooks, hook) ==
    [hooks EXCEPT ![hook.hook_point] = Append(@, hook)]

\* HookManager.register
HookManager_register(hooks, hook) ==
    [hooks EXCEPT ![hook.hook_point] = ListSort(Append(@, hook), <<>>)]

\* list.remove(hook) for the hook at index i
RemoveAt(list, i) == SubSeq(list, 1, i - 1) \o SubSeq(list, i + 1, Len(list))

\* HookManager.unregister: the first hook of that name, going through the
\* hook points in order, is removed
RECURSIVE HookManager_unregister(_, _, _)
HookManager_unregister(hooks, hook_name, points) ==
    IF points = <<>> THEN hooks
    ELSE IF \E i \in DOMAIN hooks[Head(points)] : hooks[Head(points)][i].name = hook_name
    THEN [hooks EXCEPT ![Head(points)] =
            RemoveAt(@, CHOOSE i \in DOMAIN @ :
                            /\ @[i].name = hook_name
                            /\ \A j \in DOMAIN @ : @[j].name = hook_name => i <= j)]
    ELSE HookManager_unregister(hooks, hook_name, Tail(points))

\* HookContext(hook_point=hook_point, data=data or {})
HookContext(hook_point) ==
    [hook_point |-> hook_point, error |-> None, cancelled |-> FALSE]

\* the context after the handler of a hook has run, and whether it raised
HandlerRun(hook, context) ==
    [context |-> IF hook.handler \in {"cancels", "cancels_raises"}
                 THEN [context EXCEPT !.cancelled = TRUE] ELSE context,
     raised |-> hook.handler \in {"raises", "cancels_raises"}]

\* a faulty loop that gives up at the first hook that raises
RECURSIVE TriggerLoop_stopping_at_error(_, _)
TriggerLoop_stopping_at_error(hooks, t) ==
    IF hooks = <<>> THEN t
    ELSE Only({IF run.raised
               THEN [context |-> [run.context EXCEPT !.error = <<"error", Head(hooks).seq>>],
                     trace |-> Append(t.trace, Head(hooks))]
               ELSE IF run.context.cancelled
               THEN [context |-> run.context, trace |-> Append(t.trace, Head(hooks))]
               ELSE TriggerLoop_stopping_at_error(
                        Tail(hooks),
                        [context |-> run.context, trace |-> Append(t.trace, Head(hooks))]) :
                 run \in {HandlerRun(Head(hooks), t.context)}})

\* the loop of trigger() over self._hooks[hook_point]; t = [context, trace]
RECURSIVE TriggerLoop(_, _)
TriggerLoop(hooks, t) ==
    IF hooks = <<>> THEN t
    ELSE Only({IF run.raised
               THEN TriggerLoop(
                        Tail(hooks),
                        [context |-> [run.context EXCEPT !.error = <<"error", Head(hooks).seq>>],
                         trace |-> Append(t.trace, Head(hooks))])
               ELSE IF run.context.cancelled
               THEN [context |-> run.context, trace |-> Append(t.trace, Head(hooks))]
               ELSE TriggerLoop(
                        Tail(hooks),
                        [context |-> run.context, trace |-> Append(t.trace, Head(hooks))]) :
                 run \in {HandlerRun(Head(hooks), t.context)}})

\* HookManager.trigger
HookManager_trigger(hooks, hook_point) ==
    TriggerLoop(hooks[hook_point], [context |-> HookContext(hook_point), trace |-> <<>>])

HookInit ==
    /\ h_hooks = [hp \in Range(HookPoints) |-> <<>>]
    /\ h_registered = 0
    /\ h_trace = <<>>
    /\ h_context = NoneRec
    /\ OrchestratorIdle
    /\ MatchIdle /\ TransitionIdle /\ BusIdle /\ BatchIdle /\ ParseIdle /\ FormatIdle /\ LegacyIdle

\* register(Hook(name, hook_point, handler, priority))
Register ==
    /\ h_registered < MaxRegistrations
    /\ \E name \in HookNames, hp \in Range(HookPoints), kind \in HandlerKinds,
          priority \in HookPriorities :
            h_hooks' = HookManager_register(
                            h_hooks, Hook(name, hp, kind, priority, h_registered + 1))
    /\ h_registered' = h_registered + 1
    /\ h_trace' = <<>>
    /\ h_context' = NoneRec
    /\ UNCHANGED <<o_vars, m_vars, t_vars, e_vars, b_vars, p_vars, f_vars, l_vars>>

\* unregister(hook_name)
Unregister ==
    /\ \E name \in HookNames : h_hooks' = HookManager_unregister(h_hooks, name, HookPoints)
    /\ h_trace' = <<>>
    /\ h_context' = NoneRec
    /\ UNCHANGED <<h_registered, o_vars, m_vars, t_vars, e_vars, b_vars, p_vars, f_vars, l_vars>>

\* trigger(hook_point)
Trigger ==
    /\ \E hp \in Range(HookPoints) :
       \E t \in {HookManager_trigger(h_hooks, hp)} :
          /\ h_trace' = t.trace
          /\ h_context' = t.context
    /\ UNCHANGED <<h_hooks, h_registered, o_vars, m_vars, t_vars, e_vars, b_vars, p_vars, f_vars, l_vars>>

HookNext == Register \/ Unregister \/ Trigger

HookSpec == HookInit /\ [][HookNext]_vars

----------------------------------------------------------------------------
(* BusSpec: EventBus (core/domain/events.py). A handler either returns or  *)
(* raises; it carries the number of the subscribe() call that brought it   *)
(* in. _handlers is a dict from event type to the list of its handlers.    *)

MaxSubscriptions == 3   \* subscribe() calls in one run
MaxPublished == 2       \* publish() calls in one run

\* the event types published, and the base type catch-all handlers name
EventTypes == {"SyncStarted", "SyncCompleted"}
DomainEvent == "DomainEvent"

\* dict.get(key, [])
HandlersGet(handlers, key) == IF DictHas(handlers, key) THEN DictGet(handlers, key) ELSE <<>>

\* EventBus.subscribe
EventBus_subscribe(handlers, event_type, handler) ==
    DictSet(handlers, event_type, Append(HandlersGet(handlers, event_type), handler))

\* "for handler in ...: handler(event)": an exception leaves the loop.
\* c = [called, raised]
RECURSIVE CallHandlers(_, _)
CallHandlers(list, c) ==
    IF list = <<>> \/ c.raised THEN c
    ELSE CallHandlers(Tail(list), [called |-> Append(c.called, Head(list)),
                                   raised |-> Head(list).raises])

\* EventBus.publish: the type's handlers, then the catch-all handlers
EventBus_publish(handlers, event_type) ==
    CallHandlers(HandlersGet(handlers, DomainEvent),
                 CallHandlers(HandlersGet(handlers, event_type),
                              [called |-> <<>>, raised |-> FALSE]))

BusInit ==
    /\ e_handlers = <<>>
    /\ e_history = <<>>
    /\ e_called = <<>>
    /\ e_outcome = "none"
    /\ OrchestratorIdle
    /\ MatchIdle /\ TransitionIdle /\ HookIdle /\ BatchIdle /\ ParseIdle /\ FormatIdle /\ LegacyIdle

\* the handlers subscribed so far
SubscriptionCount ==
    Cardinality(UNION {Range(e_handlers[i][2]) : i \in DOMAIN e_handlers})

\* subscribe(event_type, handler)
Subscribe ==
    /\ SubscriptionCount < MaxSubscriptions
    /\ \E event_type \in EventTypes \cup {DomainEvent}, raises \in BOOLEAN :
          e_handlers' = EventBus_subscribe(
                            e_handlers, event_type,
                            [id |-> SubscriptionCount + 1, raises |-> raises])
    /\ e_called' = <<>>
    /\ e_outcome' = "none"
    /\ UNCHANGED <<e_history, o_vars, m_vars, t_vars, h_vars, b_vars, p_vars, f_vars, l_vars>>

\* publish(event)
Publish ==
    /\ Len(e_history) < MaxPublished
    /\ \E event_type \in EventTypes :
       \E c \in {EventBus_publish(e_handlers, event_type)} :
          /\ e_history' = Append(e_history, event_type)
          /\ e_called' = c.called
          /\ e_outcome' = IF c.raised THEN "raised" ELSE "returned"
    /\ UNCHANGED <<e_handlers, o_vars, m_vars, t_vars, h_vars, b_vars, p_vars, f_vars, l_vars>>

BusNext == Subscribe \/ Publish

BusSpec == BusInit /\ [][BusNext]_vars

----------------------------------------------------------------------------
(* BatchSpec: a CommandBatch of UpdateDescriptionCommands, added one by    *)
(* one and executed against an epic with one issue. A command fails when   *)
(* it has no issue key, when its issue does not exist or when its request  *)
(* fails.                                                                  *)

MaxCommands == 3   \* commands added to one batch

\* the issue keys commands are built with: an issue of the epic, an issue
\* that does not exist, and no key
BatchKeys == {<<"P", 1>>, <<"P", 9>>, NoKey}

BatchInit ==
    /\ TrackerInit({RemoteFresh})
    /\ b_commands = <<>>
    /\ b_stop_on_error \in BOOLEAN
    /\ b_results = <<>>
    /\ b_pc = "adding"
    /\ MatchIdle /\ TransitionIdle /\ HookIdle /\ BusIdle /\ ParseIdle /\ FormatIdle /\ LegacyIdle

\* batch.add(UpdateDescriptionCommand(...))
BatchAdd ==
    /\ b_pc = "adding"
    /\ Len(b_commands) < MaxCommands
    /\ \E issue_key \in BatchKeys, dry_run \in BOOLEAN :
          b_commands' = Append(b_commands,
                               [issue_key |-> issue_key,
                                description |-> ADFFormatter_format_text("As a user"),
                                dry_run |-> dry_run])
    /\ UNCHANGED <<b_stop_on_error, b_results, b_pc, o_vars, m_vars, t_vars, h_vars,
                   e_vars, p_vars, f_vars, l_vars>>

\* batch.execute_all()
BatchExecuteAll ==
    /\ b_pc = "adding"
    /\ \E F \in FailSets(CommandBatch_execute_all(
                            [w |-> World(2, {}, <<>>, <<>>, NoResult, 0), results |-> <<>>],
                            b_commands, b_stop_on_error).w.net) :
       \E b \in {CommandBatch_execute_all(
                    [w |-> World(2, F, <<>>, <<>>, NoResult, 0), results |-> <<>>],
                    b_commands, b_stop_on_error)} :
          /\ F \subseteq 1..b.w.net
          /\ Commit(b.w)
          /\ b_results' = b.results
    /\ b_pc' = "executed"
    /\ UNCHANGED <<b_commands, b_stop_on_error, config, adapter_arg, adapter, doc,
                   remote_init, o_md_stories, o_jira_issues, o_matches, result, pc, ret,
                   prev_ret, analyses, calls, m_vars, t_vars, h_vars, e_vars, p_vars, f_vars, l_vars>>

BatchNext == BatchAdd \/ BatchExecuteAll

BatchSpec == BatchInit /\ [][BatchNext]_vars

----------------------------------------------------------------------------
(* ParseSpec: MarkdownParser._parse_all_stories (adapters/parsers/        *)
(* markdown.py) applied to documents of story headers                      *)
(* "### <marker> <id>: <title>".                                           *)

MaxHeaders == 2   \* story headers in one document

NL == "\n"

\* s has the literal lit at index i
StartsWithAt(s, i, lit) ==
    /\ i + Len(lit) - 1 <= Len(s)
    /\ SubSeq(s, i, i + Len(lit) - 1) = lit

\* the index of the first newline at or after i, Len(s) + 1 when there is none
LineEnd(s, i) ==
    IF \E k \in i..Len(s) : s[k] = NL
    THEN CHOOSE k \in i..Len(s) : s[k] = NL /\ \A l \in i..(k - 1) : s[l] # NL
    ELSE Len(s) + 1

\* the index after the run of digits that starts at i (\d+ is greedy)
DigitsEnd(s, i) ==
    IF \E k \in i..Len(s) : s[k] \notin Range(DigitChars)
    THEN CHOOSE k \in i..Len(s) :
            s[k] \notin Range(DigitChars) /\ \A l \in i..(k - 1) : s[l] \in Range(DigitChars)
    ELSE Len(s) + 1

\* the indexes j at which " US-<digits>: <title>\n" completes a match of
\* STORY_PATTERN = r'### [^\n]+ (US-\d+): ([^\n]+)\n' that starts at i
StoryPatternTails(content, i) ==
    {j \in (i + 5)..LineEnd(content, i) :
        /\ StartsWithAt(content, j, <<" ", "U", "S", "-">>)
        /\ DigitsEnd(content, j + 4) > j + 4
        /\ StartsWithAt(content, DigitsEnd(content, j + 4), <<":", " ">>)
        /\ DigitsEnd(content, j + 4) + 2 < LineEnd(content, i)
        /\ LineEnd(content, i) <= Len(content)}

\* STORY_PATTERN matches at index i
StoryPatternMatches(content, i) ==
    /\ StartsWithAt(content, i, <<"#", "#", "#", " ">>)
    /\ StoryPatternTails(content, i) # {}

\* the match at index i: [^\n]+ is greedy, so the last tail is taken
StoryPatternMatch(content, i) ==
    Only({[group1 |-> SubSeq(content, j + 1, DigitsEnd(content, j + 4) - 1),
           group2 |-> SubSeq(content, DigitsEnd(content, j + 4) + 2,
                             LineEnd(content, i) - 1),
           end |-> LineEnd(content, i) + 1] :
            j \in {CHOOSE j \in StoryPatternTails(content, i) :
                        \A k \in StoryPatternTails(content, i) : k <= j}})

\* re.finditer(STORY_PATTERN, content) from index pos on
RECURSIVE FindIter(_, _)
FindIter(content, pos) ==
    IF pos > Len(content) THEN <<>>
    ELSE IF StoryPatternMatches(content, pos)
    THEN <<StoryPatternMatch(content, pos)>>
         \o FindIter(content, StoryPatternMatch(content, pos).end)
    ELSE FindIter(content, pos + 1)

\* str.strip()
Strip(s) == LStrip(RStrip(s))

\* _parse_all_stories: one story per match, with the id and the title of
\* the header
MarkdownParser_parse_all_stories(content) ==
    [i \in DOMAIN FindIter(content, 1) |->
        [id |-> FindIter(content, 1)[i].group1,
         title |-> Strip(FindIter(content, 1)[i].group2)]]

\* story ids written in headers
ID_US001    == <<"U","S","-","0","0","1">>
ID_PROJ123  == <<"P","R","O","J","-","1","2","3">>
ID_A1       == <<"A","-","1">>
ID_Hash123  == <<"#","1","2","3">>
ID_proj123  == <<"p","r","o","j","-","1","2","3">>
ID_MyProj1  == <<"M","y","P","r","o","j","-","1">>
ID_123      == <<"1","2","3">>
ID_P2024    == <<"P","2","0","2","4","-","0","0","1">>

HeaderIds ==
    {ID_US001, ID_PROJ123, ID_A1, ID_Hash123, ID_proj123, ID_MyProj1, ID_123, ID_P2024}
HeaderTitles == {T_AddLogin, T_Export}

\* "### <marker> <id>: <title>\n"
HeaderLine(header) ==
    <<"#", "#", "#", " ", "*", " ">> \o header.id \o <<":", " ">> \o header.title \o <<NL>>

\* the markdown text of a document of headers
RECURSIVE MarkdownText(_)
MarkdownText(headers) ==
    IF headers = <<>> THEN <<>>
    ELSE HeaderLine(Head(headers)) \o <<NL>> \o MarkdownText(Tail(headers))

ParseInit ==
    /\ p_content \in SeqsUpTo([id : HeaderIds, title : HeaderTitles], MaxHeaders) \ {<<>>}
    /\ p_stories = <<>>
    /\ p_pc = "input"
    /\ OrchestratorIdle
    /\ MatchIdle /\ TransitionIdle /\ HookIdle /\ BusIdle /\ BatchIdle /\ FormatIdle /\ LegacyIdle

\* parse_stories(content)
Parse ==
    /\ p_pc = "input"
    /\ p_stories' = MarkdownParser_parse_all_stories(MarkdownText(p_content))
    /\ p_pc' = "parsed"
    /\ UNCHANGED <<p_content, o_vars, m_vars, t_vars, h_vars, e_vars, b_vars, f_vars, l_vars>>

ParseNext == Parse

ParseSpec == ParseInit /\ [][ParseNext]_vars

----------------------------------------------------------------------------
(* The ADF formatter (FormatSpec): ADFFormatter.format_text, line by line. *)

MaxLines == 3  \* lines of the text handed to format_text

\* str.split("\n") from index i on
RECURSIVE SplitLines(_, _)
SplitLines(text, i) ==
    IF LineEnd(text, i) > Len(text)
    THEN <<SubSeq(text, i, Len(text))>>
    ELSE <<SubSeq(text, i, LineEnd(text, i) - 1)>> \o SplitLines(text, LineEnd(text, i) + 1)

\* "\n".join(lines)
RECURSIVE JoinLines(_)
JoinLines(lines) ==
    IF lines = <<>> THEN <<>>
    ELSE IF Len(lines) = 1 THEN lines[1]
    ELSE lines[1] \o <<NL>> \o JoinLines(Tail(lines))

\* line[n:]
From(line, n) == SubSeq(line, n + 1, Len(line))

\* the index of the first character c at or after i, 0 when there is none
NextChar(s, i, c) ==
    IF \E k \in i..Len(s) : s[k] = c
    THEN CHOOSE k \in i..Len(s) : s[k] = c /\ \A l \in i..(k - 1) : s[l] # c
    ELSE 0

\* the backquote character, which a string of the module cannot hold
BackQuote == "backquote"

\* _text, _bold_text, _code_text, _italic_text
ADFFormatter_text(text, mark) == [text |-> text, mark |-> mark]

\* the alternatives of the inline pattern at pos, in the order of the
\* pattern: bold between double stars, italic between stars, code between
\* backquotes, each around one or more characters that are not the delimiter
InlineMatch(text, pos) ==
    LET star2 == NextChar(text, pos + 2, "*")
        star1 == NextChar(text, pos + 1, "*")
        tick == NextChar(text, pos + 1, BackQuote)
    IN
    IF StartsWithAt(text, pos, <<"*", "*">>) /\ star2 > pos + 2
       /\ StartsWithAt(text, star2, <<"*", "*">>)
    THEN [found |-> TRUE, end |-> star2 + 2,
          node |-> ADFFormatter_text(SubSeq(text, pos + 2, star2 - 1), "strong")]
    ELSE IF StartsWithAt(text, pos, <<"*">>) /\ star1 > pos + 1
    THEN [found |-> TRUE, end |-> star1 + 1,
          node |-> ADFFormatter_text(SubSeq(text, pos + 1, star1 - 1), "em")]
    ELSE IF StartsWithAt(text, pos, <<BackQuote>>) /\ tick > pos + 1
    THEN [found |-> TRUE, end |-> tick + 1,
          node |-> ADFFormatter_text(SubSeq(text, pos + 1, tick - 1), "code")]
    ELSE [found |-> FALSE, end |-> pos, node |-> ADFFormatter_text(<<>>, None)]

\* the loop of _parse_inline over re.finditer: pos is where the search
\* goes on, last_end where the last match ended
RECURSIVE InlineLoop(_, _, _)
InlineLoop(text, pos, last_end) ==
    IF pos > Len(text)
    THEN IF last_end <= Len(text)
         THEN <<ADFFormatter_text(SubSeq(text, last_end, Len(text)), None)>>
         ELSE <<>>
    ELSE IF InlineMatch(text, pos).found
    THEN (IF pos > last_end
          THEN <<ADFFormatter_text(SubSeq(text, last_end, pos - 1), None)>>
          ELSE <<>>)
         \o <<InlineMatch(text, pos).node>>
         \o InlineLoop(text, InlineMatch(text, pos).end, InlineMatch(text, pos).end)
    ELSE InlineLoop(text, pos + 1, last_end)

\* _parse_inline(text)
ADFFormatter_parse_inline(text) ==
    IF InlineLoop(text, 1, 1) # <<>>
    THEN InlineLoop(text, 1, 1)
    ELSE <<ADFFormatter_text(text, None)>>

\* a node of the document: a heading, a paragraph, a bulletList or a taskList
Node(type, level, inline, items) ==
    [type |-> type, level |-> level, inline |-> inline, items |-> items]

\* _heading(text, level)
ADFFormatter_heading(text, level) ==
    Node("heading", level, <<ADFFormatter_text(text, None)>>, <<>>)

\* the task item pattern: dash, space, a bracketed space or x, space
IsTaskLine(line) ==
    /\ StartsWithAt(line, 1, <<"-", " ", "[">>)
    /\ Len(line) >= 6
    /\ line[4] \in {" ", "x"}
    /\ line[5] = "]"
    /\ line[6] = " "

\* line.startswith("* ") or (line.startswith("- ") and not line.startswith("- ["))
IsBulletLine(line) ==
    \/ StartsWithAt(line, 1, <<"*", " ">>)
    \/ (StartsWithAt(line, 1, <<"-", " ">>) /\ ~StartsWithAt(line, 1, <<"-", " ", "[">>))

\* the state of format_text's loop: current_list is the index in content of
\* the list node the name is bound to, 0 when it is bound to None
FormatStart ==
    [content |-> <<>>, current_list |-> 0, current_list_type |-> None, raised |-> FALSE]

\* content.append(node) with both names reset
ResetBoth(st, nodes) ==
    [st EXCEPT !.content = @ \o nodes, !.current_list = 0, !.current_list_type = None]

\* content.append(self._heading(...)) after current_list = None
HeadingStep(st, text, level) ==
    [st EXCEPT !.content = Append(@, ADFFormatter_heading(text, level)), !.current_list = 0]

\* current_list["content"].append(item): a TypeError when the name is None
AppendItem(st, item) ==
    IF st.current_list = 0
    THEN [st EXCEPT !.raised = TRUE]
    ELSE [st EXCEPT !.content[st.current_list].items = Append(@, item)]

\* a list line: a new list node unless the type of the last list is list_type
ListStep(st, list_type, node_type, item) ==
    IF st.current_list_type # list_type
    THEN AppendItem([st EXCEPT !.content = Append(@, Node(node_type, 0, <<>>, <<>>)),
                               !.current_list = Len(st.content) + 1,
                               !.current_list_type = list_type], item)
    ELSE AppendItem(st, item)

\* one pass of the loop of format_text
FormatLine(st, line) ==
    IF Strip(line) = <<>> THEN ResetBoth(st, <<>>)
    ELSE IF StartsWithAt(line, 1, <<"#", "#", "#", " ">>) THEN HeadingStep(st, From(line, 4), 3)
    ELSE IF StartsWithAt(line, 1, <<"#", "#", " ">>) THEN HeadingStep(st, From(line, 3), 2)
    ELSE IF StartsWithAt(line, 1, <<"#", " ">>) THEN HeadingStep(st, From(line, 2), 1)
    ELSE IF StartsWithAt(line, 1, <<"h", "3", ".", " ">>) THEN HeadingStep(st, From(line, 4), 3)
    ELSE IF StartsWithAt(line, 1, <<"h", "2", ".", " ">>) THEN HeadingStep(st, From(line, 4), 2)
    ELSE IF IsTaskLine(line)
    THEN ListStep(st, "task", "taskList",
                  [state |-> IF line[4] = "x" THEN "DONE" ELSE "TODO",
                   inline |-> ADFFormatter_parse_inline(From(line, 6))])
    ELSE IF IsBulletLine(line)
    THEN ListStep(st, "bullet", "bulletList",
                  [state |-> None, inline |-> ADFFormatter_parse_inline(From(line, 2))])
    ELSE IF StartsWithAt(line, 1, <<"|">>) THEN ResetBoth(st, <<>>)
    ELSE ResetBoth(st, <<Node("paragraph", 0, ADFFormatter_parse_inline(line), <<>>)>>)

\* the loop of format_text: an exception ends it
RECURSIVE FormatLoop(_, _)
FormatLoop(st, lines) ==
    IF lines = <<>> \/ st.raised THEN st
    ELSE FormatLoop(FormatLine(st, lines[1]), Tail(lines))

\* _doc(content)
ADFFormatter_doc(content) ==
    IF content = <<>>
    THEN <<Node("paragraph", 0, <<ADFFormatter_text(<<" ">>, None)>>, <<>>)>>
    ELSE content

\* format_text(text): the document, or the exception that left the call
ADFFormatter_format_text_lines(text) ==
    Only({[raised |-> st.raised,
           content |-> IF st.raised THEN <<>> ELSE ADFFormatter_doc(st.content)]
          : st \in {FormatLoop(FormatStart, SplitLines(text, 1))}})

\* the lines texts are made of
L_Blank == <<>>
L_Spaces == <<" ">>
L_BulletDash == <<"-", " ", "a">>
L_BulletStar == <<"*", " ", "b">>
L_Heading1 == <<"#", " ", "H">>
L_Heading3 == <<"#", "#", "#", " ", "S">>
L_WikiHeading == <<"h", "2", ".", " ", "T">>
L_TaskOpen == <<"-", " ", "[", " ", "]", " ", "t">>
L_TaskDone == <<"-", " ", "[", "x", "]", " ", "u">>
L_TableRow == <<"|", "c", "|">>
L_Paragraph == <<"*", "i", "*", "p">>
L_Bracket == <<"-", " ", "[", "y">>

FormatLines ==
    {L_Blank, L_Spaces, L_BulletDash, L_BulletStar, L_Heading1, L_Heading3, L_WikiHeading,
     L_TaskOpen, L_TaskDone, L_TableRow, L_Paragraph, L_Bracket}

FormatInit ==
    /\ f_text \in {JoinLines(lines) : lines \in SeqsUpTo(FormatLines, MaxLines) \ {<<>>}}
    /\ f_doc = NoneRec
    /\ f_pc = "input"
    /\ OrchestratorIdle
    /\ MatchIdle /\ TransitionIdle /\ HookIdle /\ BusIdle /\ BatchIdle /\ ParseIdle /\ LegacyIdle

\* format_text(text)
Format ==
    /\ f_pc = "input"
    /\ f_doc' = ADFFormatter_format_text_lines(f_text)
    /\ f_pc' = "formatted"
    /\ UNCHANGED <<f_text, o_vars, m_vars, t_vars, h_vars, e_vars, b_vars, p_vars, l_vars>>

FormatNext == Format

FormatSpec == FormatInit /\ [][FormatNext]_vars

----------------------------------------------------------------------------
(* The legacy engine (LegacySpec): JiraSyncEngine and JiraClient of         *)
(* md2jira.py, with the prompts of _confirm_action.                        *)
(* A call threads a record x through: the remote, the cached account id,   *)
(* the prompts shown and the write requests sent so far (ev), the number   *)
(* of prompts of this call (asked) and whether an exception is on its way  *)
(* out (exc). The remote answers every request; story_filter is None.      *)

MaxPrompts == 3      \* answers the user types during one call
MaxEngineCalls == 2  \* engine methods called in one run

\* what the user types at a prompt
PromptAnswers == {<<"y">>, <<" ", "Y", "e", "s">>, <<"n">>, <<>>}

LegacySubtask(name, status) ==
    [name |-> name, description |-> "subtask text", story_points |-> 1, status |-> status]

LegacyStory(story, acceptance_criteria, subtasks) ==
    [id |-> story.id, title |-> story.title, description |-> story.description,
     acceptance_criteria |-> acceptance_criteria, technical_notes |-> "",
     subtasks |-> subtasks, commits |-> story.commits]

LegacyStory1 == LegacyStory(Story1, <<"can log in">>, <<LegacySubtask(N_WriteTests, "DONE")>>)
LegacyStory2 == LegacyStory(Story2, <<>>, <<>>)
LegacyStory3 == LegacyStory(Story3, <<>>, <<LegacySubtask(N_Deploy, "IN_PROGRESS")>>)

\* the documents the legacy parser is given
LegacyDocs == {<<LegacyStory1>>, <<LegacyStory1, LegacyStory2>>, <<LegacyStory3>>,
               <<LegacyStory2>>}

\* UserStory.to_jira_description: the parts that "\n".join puts together
UserStory_to_jira_description(story) ==
    <<story.description>>
    \o (IF story.acceptance_criteria # <<>>
        THEN <<"## Acceptance Criteria">>
             \o [i \in DOMAIN story.acceptance_criteria |->
                    <<"- [ ] ", story.acceptance_criteria[i]>>]
        ELSE <<>>)
    \o (IF story.technical_notes # "" THEN <<"## Technical Notes", story.technical_notes>>
        ELSE <<>>)

\* not description.strip()
IsBlankDescription(parts) == \A i \in DOMAIN parts : parts[i] = ""

\* JiraClient._text_to_adf
JiraClient_text_to_adf(parts) == [heading |-> None, rows |-> parts]

\* JiraClient._commits_to_adf
JiraClient_commits_to_adf(commits) == [heading |-> "Related Commits", rows |-> commits]

\* the context at the start of an engine call
LegacyStart(rem, events) ==
    [remote |-> rem, user |-> NoneRec, ev |-> events, asked |-> 0, exc |-> FALSE]

\* JiraClient._request and the direct requests.post calls: the request goes
\* to the remote; a write is added to the events
LegacySend(x, method, endpoint, json) ==
    Only({[x |-> [x EXCEPT !.remote = r.remote,
                           !.ev = IF method # "GET" /\ endpoint # SearchEndpoint
                                  THEN Append(@, [kind |-> "request",
                                                  what |-> <<method, endpoint, json>>,
                                                  answer |-> <<>>])
                                  ELSE @],
           ok |-> r.ok, val |-> r.data] :
            r \in {Server(x.remote, method, endpoint, json)}})

\* JiraClient._request: raise_for_status() on a response that is not ok
JiraClient_request(x, method, endpoint, json) ==
    Only({[x |-> [r.x EXCEPT !.exc = ~r.ok], val |-> r.val] :
            r \in {LegacySend(x, method, endpoint, json)}})

\* JiraClient.get_epic_children
JiraClient_get_epic_children(x, epic_key) ==
    Only({[i \in DOMAIN issues |->
              [key |-> issues[i].key, summary |-> issues[i].summary,
               description |-> issues[i].description, status |-> issues[i].status,
               subtasks |-> [j \in DOMAIN issues[i].subtasks |->
                                [key |-> issues[i].subtasks[j].key,
                                 summary |-> issues[i].subtasks[j].summary,
                                 status |-> issues[i].subtasks[j].status]]]] :
            issues \in {LegacySend(x, "POST", SearchEndpoint, [jql |-> epic_key]).val.issues}})

\* JiraClient.get_issue_comments
JiraClient_get_issue_comments(x, issue_key) ==
    JsonGet(JiraClient_request(x, "GET", CommentEndpoint(issue_key), EmptyJson).val,
            "comments", <<>>)

\* JiraClient.get_issue_status and the status of get_subtask_details
JiraClient_get_issue_status(x, issue_key) ==
    JiraClient_request(x, "GET", IssueEndpoint(issue_key), EmptyJson).val.status

\* JiraClient.get_current_user_account_id
JiraClient_get_current_user_account_id(x) ==
    IF x.user = NoneRec
    THEN Only({[x |-> [r.x EXCEPT !.user = IF r.x.exc THEN NoneRec ELSE r.val],
                val |-> r.val] :
                 r \in {JiraClient_request(x, "GET", <<"myself">>, EmptyJson)}})
    ELSE [x |-> x, val |-> x.user]

\* JiraClient.update_issue_description
JiraClient_update_issue_description(self, x, issue_key, description) ==
    IF self.dry_run THEN x
    ELSE JiraClient_request(x, "PUT", IssueEndpoint(issue_key),
             [fields |-> [description |-> JiraClient_text_to_adf(description)]]).x

\* JiraClient.create_subtask
JiraClient_create_subtask(self, x, parent_key, summary, description, project_key) ==
    IF self.dry_run THEN x
    ELSE Only({IF u.x.exc THEN u.x
               ELSE JiraClient_request(u.x, "POST", <<"issue">>,
                        [fields |-> [project |-> project_key, parent |-> parent_key,
                                     summary |-> summary,
                                     description |-> JiraClient_text_to_adf(<<description>>),
                                     assignee |-> u.val.accountId]]).x :
                 u \in {JiraClient_get_current_user_account_id(x)}})

\* JiraClient.add_commits_comment
JiraClient_add_commits_comment(self, x, issue_key, commits) ==
    IF self.dry_run THEN x
    ELSE JiraClient_request(x, "POST", CommentEndpoint(issue_key),
             [body |-> JiraClient_commits_to_adf(commits)]).x

\* JiraClient.transition_issue: False for a response that is not ok
JiraClient_transition_issue(self, x, issue_key, transition_id) ==
    IF self.dry_run THEN [x |-> x, val |-> TRUE]
    ELSE Only({[x |-> r.x, val |-> r.ok] :
                 r \in {LegacySend(x, "POST", TransitionsEndpoint(issue_key),
                                   [transition |-> [id |-> transition_id]])}})

\* the path JiraClient.transition_to_status picks for the lower-cased target
LegacyPath(target_lower) ==
    IF Contains(target_lower, Lower(ST_Resolved)) \/ Contains(target_lower, Lower(T_Done))
    THEN <<<<ST_Analyze, "7">>, <<ST_Open, "4">>, <<ST_InProgress, "5">>>>
    ELSE IF Contains(target_lower, <<"p","r","o","g","r","e","s","s">>)
    THEN <<<<ST_Analyze, "7">>, <<ST_Open, "4">>>>
    ELSE IF Contains(target_lower, Lower(ST_Open))
    THEN <<<<ST_Analyze, "7">>>>
    ELSE <<>>

\* the loop of JiraClient.transition_to_status and its final check
RECURSIVE LegacyTransitionSteps(_, _, _, _, _)
LegacyTransitionSteps(self, x, issue_key, path, target_status) ==
    IF path = <<>>
    THEN [x |-> x,
          val |-> \/ Contains(Lower(JiraClient_get_issue_status(x, issue_key)),
                              Lower(target_status))
                  \/ JiraClient_get_issue_status(x, issue_key) = target_status]
    ELSE IF JiraClient_get_issue_status(x, issue_key) = path[1][1]
    THEN Only({IF ~r.val THEN [x |-> r.x, val |-> FALSE]
               ELSE LegacyTransitionSteps(self, r.x, issue_key, Tail(path), target_status) :
                 r \in {JiraClient_transition_issue(self, x, issue_key, path[1][2])}})
    ELSE LegacyTransitionSteps(self, x, issue_key, Tail(path), target_status)

\* JiraClient.transition_to_status
JiraClient_transition_to_status(self, x, issue_key, target_status) ==
    IF JiraClient_get_issue_status(x, issue_key) = target_status THEN [x |-> x, val |-> TRUE]
    ELSE IF self.dry_run THEN [x |-> x, val |-> TRUE]
    ELSE IF LegacyPath(Lower(target_status)) = <<>> THEN [x |-> x, val |-> FALSE]
    ELSE LegacyTransitionSteps(self, x, issue_key, LegacyPath(Lower(target_status)),
                               target_status)

\* JiraSyncEngine._confirm_action: input(message).strip().lower() in ("y", "yes")
JiraSyncEngine_confirm_action(self, x, message) ==
    IF ~self.confirm THEN [x |-> x, val |-> TRUE]
    ELSE Only({[x |-> [x EXCEPT !.asked = @ + 1,
                                !.ev = Append(@, [kind |-> "prompt", what |-> message,
                                                  answer |-> response])],
                val |-> Lower(Strip(response)) \in {<<"y">>, <<"y", "e", "s">>}] :
                 response \in {IF x.asked < MaxPrompts THEN self.answers[x.asked + 1]
                               ELSE <<>>}})

\* s[:30]
First30(s) == IF Len(s) <= 30 THEN s ELSE SubSeq(s, 1, 30)

\* subtask_name_lower[:30] in s or s in subtask_name_lower, for some summary
\* s of the issue's subtasks
LegacySubtaskExists(subtask, jira_story) ==
    \E j \in DOMAIN jira_story.subtasks :
        \/ Contains(Lower(jira_story.subtasks[j].summary), First30(Lower(subtask.name)))
        \/ Contains(Lower(subtask.name), Lower(jira_story.subtasks[j].summary))

\* the subtasks of the story that the issue lacks
RECURSIVE LegacyMissingSubtasks(_, _)
LegacyMissingSubtasks(subtasks, jira_story) ==
    IF subtasks = <<>> THEN <<>>
    ELSE (IF LegacySubtaskExists(subtasks[1], jira_story) THEN <<>> ELSE <<subtasks[1]>>)
         \o LegacyMissingSubtasks(Tail(subtasks), jira_story)

\* any("Related Commits" in str(c.get("body", "")) for c in comments)
LegacyHasCommitsComment(comments) == \E i \in DOMAIN comments : HasRelatedCommits(comments[i])

\* the items of one list of analyze(), in the order of the matches
RECURSIVE AnalysisItems(_, _, _)
AnalysisItems(x, matches, list) ==
    IF matches = <<>> THEN <<>>
    ELSE (IF \/ list = "missing_description" /\ matches[1][2][2].description = NoneRec
             \/ list = "missing_subtasks"
                /\ LegacyMissingSubtasks(matches[1][2][1].subtasks, matches[1][2][2]) # <<>>
             \/ list = "missing_commits_comment"
                /\ matches[1][2][1].commits # <<>>
                /\ ~LegacyHasCommitsComment(
                        JiraClient_get_issue_comments(x, matches[1][2][2].key))
          THEN <<[id |-> matches[1][1], jira_key |-> matches[1][2][2].key]>>
          ELSE <<>>)
         \o AnalysisItems(x, Tail(matches), list)

\* JiraSyncEngine.analyze
JiraSyncEngine_analyze(x, md_stories) ==
    Only({[missing_description |-> AnalysisItems(x, matches, "missing_description"),
           missing_subtasks |-> AnalysisItems(x, matches, "missing_subtasks"),
           missing_commits_comment |-> AnalysisItems(x, matches, "missing_commits_comment")] :
            matches \in {Legacy_match_stories(md_stories,
                                              JiraClient_get_epic_children(x, "EPIC"))}})

\* {s.id: s for s in self.parser.parse()}
RECURSIVE StoriesById(_, _)
StoriesById(stories, acc) ==
    IF stories = <<>> THEN acc
    ELSE StoriesById(Tail(stories), DictSet(acc, stories[1].id, stories[1]))

\* list(md_stories.values())
DictValues(d) == [i \in DOMAIN d |-> d[i][2]]

\* Phase 1 of sync()
RECURSIVE LegacyDescriptionLoop(_, _, _, _)
LegacyDescriptionLoop(self, x, items, md_stories) ==
    IF items = <<>> \/ x.exc THEN x
    ELSE Only({LegacyDescriptionLoop(self,
                   IF c.val
                   THEN JiraClient_update_issue_description(self, c.x, items[1].jira_key,
                            UserStory_to_jira_description(DictGet(md_stories, items[1].id)))
                   ELSE c.x,
                   Tail(items), md_stories) :
                 c \in {JiraSyncEngine_confirm_action(self, x,
                            <<"description", items[1].jira_key, <<>>>>)}})

\* Phase 2 of sync(), the loop over the subtasks of one story
RECURSIVE LegacySubtaskLoop(_, _, _, _, _)
LegacySubtaskLoop(self, x, subtasks, jira_story, project_key) ==
    IF subtasks = <<>> \/ x.exc THEN x
    ELSE IF LegacySubtaskExists(subtasks[1], jira_story)
    THEN LegacySubtaskLoop(self, x, Tail(subtasks), jira_story, project_key)
    ELSE Only({LegacySubtaskLoop(self,
                   IF c.val
                   THEN JiraClient_create_subtask(self, c.x, jira_story.key, subtasks[1].name,
                                                  subtasks[1].description, project_key)
                   ELSE c.x,
                   Tail(subtasks), jira_story, project_key) :
                 c \in {JiraSyncEngine_confirm_action(self, x,
                            <<"subtask", jira_story.key, subtasks[1].name>>)}})

\* Phase 2 of sync()
RECURSIVE LegacySubtasksLoop(_, _, _, _, _)
LegacySubtasksLoop(self, x, items, md_stories, matches) ==
    IF items = <<>> \/ x.exc THEN x
    ELSE LegacySubtasksLoop(self,
             LegacySubtaskLoop(self, x, DictGet(md_stories, items[1].id).subtasks,
                               DictGet(matches, items[1].id)[2], "P"),
             Tail(items), md_stories, matches)

\* Phase 3 of sync()
RECURSIVE LegacyCommentsLoop(_, _, _, _)
LegacyCommentsLoop(self, x, items, md_stories) ==
    IF items = <<>> \/ x.exc THEN x
    ELSE IF DictGet(md_stories, items[1].id).commits = <<>>
    THEN LegacyCommentsLoop(self, x, Tail(items), md_stories)
    ELSE Only({LegacyCommentsLoop(self,
                   IF c.val
                   THEN JiraClient_add_commits_comment(self, c.x, items[1].jira_key,
                            DictGet(md_stories, items[1].id).commits)
                   ELSE c.x,
                   Tail(items), md_stories) :
                 c \in {JiraSyncEngine_confirm_action(self, x,
                            <<"comment", items[1].jira_key, <<>>>>)}})

\* the three phases of sync(); phase 0 stands for phase=None
LegacyPhases(self, x, phase, analysis, md_stories, matches) ==
    Only({LegacyCommentsLoop(self, x2,
              IF phase \in {0, 3} THEN analysis.missing_commits_comment ELSE <<>>, md_stories) :
            x2 \in {LegacySubtasksLoop(self,
                        LegacyDescriptionLoop(self, x,
                            IF phase \in {0, 1} THEN analysis.missing_description ELSE <<>>,
                            md_stories),
                        IF phase \in {0, 2} THEN analysis.missing_subtasks ELSE <<>>,
                        md_stories, matches)}})

\* JiraSyncEngine.sync
JiraSyncEngine_sync(self, x, parsed, phase) ==
    IF self.dry_run THEN x
    ELSE LegacyPhases(self, x, phase, JiraSyncEngine_analyze(x, parsed),
                      StoriesById(parsed, <<>>),
                      Legacy_match_stories(DictValues(StoriesById(parsed, <<>>)),
                                           JiraClient_get_epic_children(x, "EPIC")))

\* the loop of fix_descriptions(): an exception of the update is caught
RECURSIVE LegacyFixLoop(_, _, _)
LegacyFixLoop(self, x, matches) ==
    IF matches = <<>> THEN x
    ELSE IF IsBlankDescription(UserStory_to_jira_description(matches[1][2][1])) \/ self.dry_run
    THEN LegacyFixLoop(self, x, Tail(matches))
    ELSE LegacyFixLoop(self,
             [JiraClient_update_issue_description(self, x, matches[1][2][2].key,
                  UserStory_to_jira_description(matches[1][2][1])) EXCEPT !.exc = FALSE],
             Tail(matches))

\* JiraSyncEngine.fix_descriptions
JiraSyncEngine_fix_descriptions(self, x, parsed) ==
    LegacyFixLoop(self, x,
        Legacy_match_stories(DictValues(StoriesById(parsed, <<>>)),
                             JiraClient_get_epic_children(x, "EPIC")))

\* JiraSyncEngine._status_matches
JiraSyncEngine_status_matches(current, target) ==
    IF Lower(current) = Lower(target) THEN TRUE
    ELSE IF Lower(target) \in {Lower(ST_Resolved), Lower(T_Done), Lower(ST_Closed)}
    THEN Lower(current) \in {Lower(ST_Resolved), Lower(T_Done), Lower(ST_Closed)}
    ELSE IF Contains(Lower(target), <<"p","r","o","g","r","e","s","s">>)
    THEN Contains(Lower(current), <<"p","r","o","g","r","e","s","s">>)
    ELSE IF Lower(target) = Lower(ST_Open) THEN Lower(current) = Lower(ST_Open)
    ELSE FALSE

\* the target status of a markdown subtask
LegacyTargetStatus(md_status) ==
    IF md_status = "DONE" THEN ST_Resolved
    ELSE IF md_status = "IN_PROGRESS" THEN ST_InProgress
    ELSE ST_Open

\* jira_subtasks_map: summary.lower()[:30] -> key and status, the status
\* from get_subtask_details
RECURSIVE JiraSubtasksMap(_, _, _)
JiraSubtasksMap(x, subtasks, acc) ==
    IF subtasks = <<>> THEN acc
    ELSE JiraSubtasksMap(x, Tail(subtasks),
             DictSet(acc, First30(Lower(subtasks[1].summary)),
                     [key |-> subtasks[1].key,
                      status |-> JiraClient_get_issue_status(x, subtasks[1].key)]))

\* the first entry of the map that contains the name or is contained in it,
\* 0 when there is none
LegacyMatchedSubtask(map, md_name_lower) ==
    LET hits == {i \in DOMAIN map : \/ Contains(map[i][1], md_name_lower)
                                    \/ Contains(md_name_lower, map[i][1])}
    IN IF hits = {} THEN 0 ELSE CHOOSE i \in hits : \A j \in hits : i <= j

\* the loop of sync_subtask_statuses() over the subtasks of one story
RECURSIVE LegacyStatusSubtaskLoop(_, _, _, _)
LegacyStatusSubtaskLoop(self, x, subtasks, map) ==
    IF subtasks = <<>> \/ x.exc THEN x
    ELSE Only({IF m = 0 THEN LegacyStatusSubtaskLoop(self, x, Tail(subtasks), map)
               ELSE IF JiraSyncEngine_status_matches(map[m][2].status,
                                                     LegacyTargetStatus(subtasks[1].status))
                       \/ self.dry_run
               THEN LegacyStatusSubtaskLoop(self, x, Tail(subtasks), map)
               ELSE LegacyStatusSubtaskLoop(self,
                        JiraClient_transition_to_status(self, x, map[m][2].key,
                            LegacyTargetStatus(subtasks[1].status)).x,
                        Tail(subtasks), map) :
                 m \in {LegacyMatchedSubtask(map, First30(Lower(subtasks[1].name)))}})

\* the loop of sync_subtask_statuses() over the matches
RECURSIVE LegacyStatusLoop(_, _, _)
LegacyStatusLoop(self, x, matches) ==
    IF matches = <<>> \/ x.exc THEN x
    ELSE IF matches[1][2][1].subtasks = <<>> THEN LegacyStatusLoop(self, x, Tail(matches))
    ELSE LegacyStatusLoop(self,
             LegacyStatusSubtaskLoop(self, x, matches[1][2][1].subtasks,
                                     JiraSubtasksMap(x, matches[1][2][2].subtasks, <<>>)),
             Tail(matches))

\* JiraSyncEngine.sync_subtask_statuses
JiraSyncEngine_sync_subtask_statuses(self, x, parsed) ==
    LegacyStatusLoop(self, x,
        Legacy_match_stories(DictValues(StoriesById(parsed, <<>>)),
                             JiraClient_get_epic_children(x, "EPIC")))

LegacyInit ==
    /\ l_engine \in [dry_run : BOOLEAN, confirm : BOOLEAN]
    /\ l_md \in LegacyDocs
    /\ l_jira \in RemotePool
    /\ l_events = <<>>
    /\ l_calls = <<>>
    /\ OrchestratorIdle
    /\ MatchIdle /\ TransitionIdle /\ HookIdle /\ BusIdle /\ BatchIdle /\ ParseIdle /\ FormatIdle

\* the engine as a call sees it: its two flags and what the user will type
LegacySelf(answers) ==
    [dry_run |-> l_engine.dry_run, confirm |-> l_engine.confirm, answers |-> answers]

\* what an engine call leaves behind
LegacyDone(x, call) ==
    /\ x.asked <= MaxPrompts
    /\ l_jira' = x.remote
    /\ l_events' = x.ev
    /\ l_calls' = Append(l_calls, call)
    /\ UNCHANGED <<l_engine, l_md, o_vars, m_vars, t_vars, h_vars, e_vars, b_vars, p_vars,
                   f_vars>>

\* engine.sync(epic_key, phase=phase)
LegacySync ==
    /\ Len(l_calls) < MaxEngineCalls
    /\ \E phase \in 0..3, answers \in [1..MaxPrompts -> PromptAnswers] :
        \E x \in {JiraSyncEngine_sync(LegacySelf(answers), LegacyStart(l_jira, l_events),
                                      l_md, phase)} :
            LegacyDone(x, "sync")

\* engine.fix_descriptions(epic_key)
LegacyFixDescriptions ==
    /\ Len(l_calls) < MaxEngineCalls
    /\ \E x \in {JiraSyncEngine_fix_descriptions(LegacySelf(<<>>),
                                                 LegacyStart(l_jira, l_events), l_md)} :
            LegacyDone(x, "fix_descriptions")

\* engine.sync_subtask_statuses(epic_key)
LegacySyncSubtaskStatuses ==
    /\ Len(l_calls) < MaxEngineCalls
    /\ \E x \in {JiraSyncEngine_sync_subtask_statuses(LegacySelf(<<>>),
                                                      LegacyStart(l_jira, l_events), l_md)} :
            LegacyDone(x, "sync_subtask_statuses")

LegacyNext == LegacySync \/ LegacyFixDescriptions \/ LegacySyncSubtaskStatuses

LegacySpec == LegacyInit /\ [][LegacyNext]_vars

----------------------------------------------------------------------------
(* Properties of the orchestrator (Spec). *)

\* a sync() call is in progress, between two of its phases
InSync == pc \in {"descriptions", "subtasks", "comments", "statuses", "complete"}

\* the last call was sync() and it returned a SyncResult
SyncReturned == ret.op = "sync" /\ ~ret.raised

\* the last call was analyze() and it returned a SyncResult
AnalyzeReturned == ret.op = "analyze" /\ ~ret.raised

\* C1: with dry-run active (in the configuration or in the adapter) no
\* mutating request is sent and the remote stays as it was before the run
C1_DryRunLeavesRemoteAlone ==
    (config.dry_run \/ adapter_arg) => (mutations = <<>> /\ remote = remote_init)

\* a dry-run sync() over a live adapter returned, having found a description
\* to update and a subtask to create
C1_Witness ==
    /\ config.dry_run /\ ~adapter_arg
    /\ SyncReturned
    /\ ret.result.stories_updated > 0
    /\ ret.result.subtasks_created > 0

\* what analyze() reports for the document and the remote over a live adapter
LiveAnalysis ==
    SyncOrchestrator_match_stories(doc, JiraAdapter_parse_issues(remote.children),
                                   SyncResult(TRUE))

\* C2: a call over an adapter constructed with dry_run=true reports the
\* matched pairs and the unmatched ids a live analyze() reports
C2_DryRunReportsLiveMatches ==
    /\ (adapter_arg /\ AnalyzeReturned) =>
            /\ ret.result.matched_stories = LiveAnalysis.res.matched_stories
            /\ ret.result.unmatched_stories = LiveAnalysis.res.unmatched_stories
    /\ (adapter_arg /\ SyncReturned) =>
            ret.result.matched_stories = LiveAnalysis.matches

\* C3: every command of a returned sync() that failed left an entry in
\* SyncResult.errors
C3_EveryFailureRecorded ==
    SyncReturned => Len(ret.result.errors) >= op_failures

\* C4: once phase 1 has succeeded, no failure leaves sync() as an exception
C4_NoFailureLeavesSync ==
    ~(ret.op = "sync" /\ ret.raised /\ ret.phase > 1)

\* the phase is Analyze, or a mutation phase whose flag is on
PhaseEnabled(number) ==
    \/ number = 1
    \/ number = 2 /\ config.sync_descriptions
    \/ number = 3 /\ config.sync_subtasks
    \/ number = 4 /\ config.sync_comments
    \/ number = 5 /\ config.sync_statuses

\* the last phase the call in progress has been through
PhaseReached ==
    CASE pc = "descriptions" -> 1
      [] pc = "subtasks" -> 2
      [] pc = "comments" -> 3
      [] pc = "statuses" -> 4
      [] OTHER -> 5

\* C5: the tracker calls of a call are made phase by phase in the order
\* 1..5, starting with the fetch of Analyze, none by a phase that is yet to
\* come and none by a phase whose flag is off
C5_PhasesInOrder ==
    /\ \A i, j \in DOMAIN log : i < j => log[i].phase <= log[j].phase
    /\ \A i \in DOMAIN log : PhaseEnabled(log[i].phase) /\ log[i].phase <= PhaseReached
    /\ (InSync \/ ret.op = "sync") =>
            (log # <<>> /\ log[1] = [phase |-> 1, op |-> "get_epic_children"])

\* a sync() with the comments phase off returned after tracker calls in
\* phases 1, 2, 3 and 5
C5_Witness ==
    /\ SyncReturned
    /\ ~config.sync_comments
    /\ {log[i].phase : i \in DOMAIN log} = {1, 2, 3, 5}

\* C6: a SyncResult is successful exactly when its errors list is empty
C6_SuccessIffNoErrors ==
    /\ result # NoResult => (result.success <=> result.errors = <<>>)
    /\ ret.result # NoneRec => (ret.result.success <=> ret.result.errors = <<>>)

\* sync() returned a SyncResult that holds an error
C6_Witness ==
    /\ SyncReturned
    /\ ret.result.errors # <<>>
    /\ ~ret.result.success

\* C7: analyze() sends no mutating request and calls no write operation, and
\* two analyze() calls that saw the same remote returned the same result
C7_AnalyzeReadOnlyRepeatable ==
    /\ ret.op = "analyze" =>
            (mutations = <<>> /\ \A i \in DOMAIN log : log[i].op \notin WriteOps)
    /\ \A i, j \in DOMAIN analyses :
            analyses[i].remote = analyses[j].remote =>
                analyses[i].result = analyses[j].result

\* analyze() returned twice on the same remote, with a matched and an
\* unmatched story
C7_Witness ==
    /\ Len(analyses) = 2
    /\ analyses[1].remote = analyses[2].remote
    /\ analyses[2].result.stories_matched > 0
    /\ analyses[2].result.unmatched_stories # <<>>

\* C8: no issue key is matched to two story ids
C8_MatchesInjective ==
    \A i, j \in DOMAIN o_matches : o_matches[i][2] = o_matches[j][2] => i = j

\* C10: every story without a match is listed in unmatched_stories of the
\* SyncResult that analyze() or sync() returns, with one warning each, and
\* without failed commands the result holds no error
C10_UnmatchedStoriesListed ==
    (AnalyzeReturned \/ SyncReturned) =>
        /\ \A i \in DOMAIN o_md_stories :
                ~DictHas(o_matches, o_md_stories[i].id) =>
                    o_md_stories[i].id \in Range(ret.result.unmatched_stories)
        /\ Len(ret.result.warnings) = Len(ret.result.unmatched_stories)
        /\ op_failures = 0 => ret.result.success

----------------------------------------------------------------------------
(* Properties of the legacy matcher (MatchSpec). *)

\* the normalized title of a remote issue, normalized as the titles of local
\* stories are
Normalized(i) == UserStory_normalize_title(m_jira[i].summary)

\* the remote issues whose normalized title contains, or is contained in,
\* the normalized title of a local story
Containing(md) ==
    {i \in DOMAIN m_jira :
        \/ Contains(Normalized(i), UserStory_normalize_title(md.title))
        \/ Contains(UserStory_normalize_title(md.title), Normalized(i))}

\* the remote issues whose normalized title equals that of a local story
Equal(md) ==
    {i \in DOMAIN m_jira : Normalized(i) = UserStory_normalize_title(md.title)}

\* C9: with every title lower-cased, stripped of a trailing "(Future)" and
\* of punctuation, a story (whose id no other story carries) is matched to
\* an issue of equal normalized title when there is one, else to an issue
\* titled as the first issue in list order whose normalized title contains
\* or is contained in its own, else to none
C9_ExactThenFirstContaining ==
    m_pc = "matched" =>
        \A k \in DOMAIN m_md :
            (\A l \in DOMAIN m_md : m_md[l].id = m_md[k].id => l = k) =>
                IF Equal(m_md[k]) # {}
                THEN /\ DictHas(m_matches, m_md[k].id)
                     /\ UserStory_normalize_title(DictGet(m_matches, m_md[k].id)[2].summary)
                            = UserStory_normalize_title(m_md[k].title)
                ELSE IF Containing(m_md[k]) # {}
                THEN /\ DictHas(m_matches, m_md[k].id)
                     /\ UserStory_normalize_title(DictGet(m_matches, m_md[k].id)[2].summary)
                            = Normalized(CHOOSE i \in Containing(m_md[k]) :
                                            \A j \in Containing(m_md[k]) : i <= j)
                ELSE ~DictHas(m_matches, m_md[k].id)

\* the first 30 characters of a text
Take30(s) == IF Len(s) <= 30 THEN s ELSE SubSeq(s, 1, 30)

\* a remote subtask summary counts as the counterpart of a local subtask
\* name: the lower-cased name, cut to 30 characters, is part of the
\* lower-cased summary, or the lower-cased summary is part of the name
IsCounterpart(name, summary) ==
    \/ Contains(Lower(summary), Take30(Lower(name)))
    \/ Contains(Lower(name), Lower(summary))

\* the subtasks the issue had on the remote at construction
SubtasksAtStart(issue_key) == IssueOf(remote_init, issue_key).subtasks

\* the subtasks of the issue that were created since construction
SubtasksCreated(issue_key) ==
    {st \in Range(IssueOf(remote, issue_key).subtasks) :
        \A i \in DOMAIN SubtasksAtStart(issue_key) :
            SubtasksAtStart(issue_key)[i].key # st.key}

\* C11: for a local subtask of a matched story that has a counterpart among
\* the remote subtasks of its issue, no subtask of its name is created
C11_CounterpartNotCreated ==
    \A k \in DOMAIN o_md_stories :
        DictHas(o_matches, o_md_stories[k].id) =>
            \A t \in DOMAIN o_md_stories[k].subtasks :
                (\E i \in DOMAIN SubtasksAtStart(DictGet(o_matches, o_md_stories[k].id)) :
                    IsCounterpart(o_md_stories[k].subtasks[t].name,
                                  SubtasksAtStart(DictGet(o_matches, o_md_stories[k].id))[i].summary))
                => \A st \in SubtasksCreated(DictGet(o_matches, o_md_stories[k].id)) :
                        st.summary # o_md_stories[k].subtasks[t].name

\* the call before the last one was a sync() that returned without errors
PreviousSyncClean ==
    /\ prev_ret.op = "sync"
    /\ ~prev_ret.raised
    /\ prev_ret.result.errors = <<>>

\* the writes a second run owes nothing to: what they bring about is what
\* the first run left on the remote
SyncedWrites == {"update_issue_description", "create_subtask", "add_comment",
                 "transition_issue"}

\* C12: a live sync() that follows a live sync() without errors issues no
\* description update, subtask creation, commits comment or transition
C12_SecondSyncWritesNothing ==
    (~config.dry_run /\ ~adapter_arg /\ PreviousSyncClean /\ (InSync \/ ret.op = "sync"))
        => \A i \in DOMAIN log : log[i].op \notin SyncedWrites

\* the tracker writes of the current call, in the order they were made
RECURSIVE WritesOf(_)
WritesOf(call_log) ==
    IF call_log = <<>> THEN <<>>
    ELSE (IF Head(call_log).op \in WriteOps THEN <<Head(call_log).op>> ELSE <<>>)
         \o WritesOf(Tail(call_log))

\* the end-to-end scenario: US-001 (done, with a description, one subtask
\* and two commits) and US-002 (planned), against an epic whose only issue
\* matches US-001 and has no description, no subtasks and no comments; one
\* live sync() with descriptions, subtasks and comments on, no request failing
EndToEndRun ==
    /\ doc = <<Story1, Story2>>
    /\ remote_init = RemoteFresh
    /\ ~config.dry_run /\ ~adapter_arg
    /\ config.sync_descriptions /\ config.sync_subtasks /\ config.sync_comments
    /\ calls = 1 /\ failures = 0
    /\ SyncReturned

\* C13: the end-to-end run returns stories_updated = 1, subtasks_created = 1
\* and comments_added = 1; its writes are the three for US-001's issue (and
\* the transition of the new subtask when statuses are synced), none for
\* US-002
C13_EndToEndCounts ==
    EndToEndRun =>
        /\ ret.result.stories_updated = 1
        /\ ret.result.subtasks_created = 1
        /\ ret.result.comments_added = 1
        /\ WritesOf(log) = <<"update_issue_description", "create_subtask", "add_comment">>
                \o (IF config.sync_statuses THEN <<"transition_issue">> ELSE <<>>)
        /\ \A i \in DOMAIN mutations :
              \/ mutations[i][2] = <<"issue">>
              \/ mutations[i][2][3] \in {<<"P", 1>>, <<"P", 10>>}
        /\ ret.result.matched_stories = <<<<"US-001", <<"P", 1>>>>>>

\* the end-to-end run returned, statuses included, and the remote changed
C13_Witness ==
    /\ EndToEndRun
    /\ config.sync_statuses
    /\ ret.result.statuses_updated = 1
    /\ remote # remote_init

----------------------------------------------------------------------------
(* Properties of transition_issue (TransitionSpec). *)

\* the path a target stands for: (from, transition id, resolution, to)
ClaimedPath(target) ==
    IF Contains(Lower(target), W_resolved) \/ Contains(Lower(target), W_done)
    THEN <<[from |-> ST_Analyze, id |-> "7", resolution |-> None, to |-> ST_Open],
           [from |-> ST_Open, id |-> "4", resolution |-> None, to |-> ST_InProgress],
           [from |-> ST_InProgress, id |-> "5", resolution |-> "Done", to |-> ST_Resolved]>>
    ELSE IF Contains(Lower(target), W_progress)
    THEN <<[from |-> ST_Analyze, id |-> "7", resolution |-> None, to |-> ST_Open],
           [from |-> ST_Open, id |-> "4", resolution |-> None, to |-> ST_InProgress]>>
    ELSE IF Contains(Lower(target), W_open)
    THEN <<[from |-> ST_Analyze, id |-> "7", resolution |-> None, to |-> ST_Open]>>
    ELSE <<>>

\* the status a transition leads to in the remote's workflow, <<>> when
\* the workflow does not have it
Leads(from, id) ==
    IF \E t \in remote.workflow : t.from = from /\ t.id = id
    THEN (CHOOSE t \in remote.workflow : t.from = from /\ t.id = id).to
    ELSE <<>>

\* the transitions posted by an issue that walks a path from a status: a
\* step is posted when the issue is in its from-status, and the walk ends
\* with a step the workflow does not have
RECURSIVE PostsAlong(_, _)
PostsAlong(path, status) ==
    IF path = <<>> THEN <<>>
    ELSE IF status = Head(path).from
    THEN <<TransitionPayload(Head(path).id, Head(path).resolution)>>
         \o (IF Leads(status, Head(path).id) = <<>> THEN <<>>
             ELSE PostsAlong(Tail(path), Leads(status, Head(path).id)))
    ELSE PostsAlong(Tail(path), status)

\* the transitions the last call posted
RECURSIVE PostedTransitions(_)
PostedTransitions(muts) ==
    IF muts = <<>> THEN <<>>
    ELSE (IF Head(muts)[2] = TransitionsEndpoint(TransitionKey)
          THEN <<Head(muts)[3]>> ELSE <<>>) \o PostedTransitions(Tail(muts))

\* a live transition_issue call was made
LiveTransition == t_last # NoneRec /\ ~adapter.dry_run

\* C14 as stated: the path depends on the target alone, and a target that
\* names none of resolved, done, progress, open is reported as a failure
\* with no transition posted
C14_PathFromTargetAlone ==
    LiveTransition =>
        IF ClaimedPath(t_last.target) = <<>>
        THEN /\ PostedTransitions(mutations) = <<>>
             /\ (t_last.exc \/ ~t_last.val)
        ELSE t_last.failed = 0 =>
                PostedTransitions(mutations) = PostsAlong(ClaimedPath(t_last.target), t_last.before)

\* C14 amended: a call whose target is the current status (letter case
\* aside) reports success and posts nothing; otherwise the path depends on
\* the target alone and an unrecognized target is reported as a failure
C14_PathUnlessAlreadyThere ==
    LiveTransition =>
        IF Lower(t_last.before) = Lower(t_last.target)
        THEN /\ PostedTransitions(mutations) = <<>>
             /\ t_last.failed = 0 => (~t_last.exc /\ t_last.val)
        ELSE IF ClaimedPath(t_last.target) = <<>>
        THEN /\ PostedTransitions(mutations) = <<>>
             /\ (t_last.exc \/ ~t_last.val)
        ELSE t_last.failed = 0 =>
                PostedTransitions(mutations) = PostsAlong(ClaimedPath(t_last.target), t_last.before)

\* a subtask in Analyze was taken to In Progress by two transitions
C14_Witness ==
    /\ LiveTransition
    /\ t_last.target = ST_InProgress /\ t_last.before = ST_Analyze
    /\ ~t_last.exc /\ t_last.val
    /\ Len(PostedTransitions(mutations)) = 2
    /\ IssueOf(remote, TransitionKey).status = ST_InProgress

\* a request of the call: the fetch of the subtask's status, the post of a
\* transition
IsStatusFetch(x) == x.method = "GET" /\ x.endpoint = IssueEndpoint(TransitionKey)
IsTransitionPost(x) == x.method = "POST" /\ x.endpoint = TransitionsEndpoint(TransitionKey)

\* a live call found the subtask in another status than the target and
\* chose a path
EntersWalk ==
    /\ LiveTransition
    /\ t_last.trace # <<>> /\ t_last.trace[1].ok
    /\ Lower(t_last.before) # Lower(t_last.target)
    /\ ClaimedPath(t_last.target) # <<>>

\* the requests tr walk the path step by step: each step starts with a
\* fetch of the status, and the step's transition is posted next exactly
\* when the fetched status is the step's from-status
RECURSIVE FetchedBeforeEachStep(_, _)
FetchedBeforeEachStep(tr, path) ==
    IF path = <<>> \/ tr = <<>>
    THEN \A i \in DOMAIN tr : ~IsTransitionPost(tr[i])
    ELSE /\ IsStatusFetch(Head(tr))
         /\ IF ~Head(tr).ok THEN Len(tr) = 1
            ELSE IF Head(tr).data.status = Head(path).from
            THEN /\ Len(tr) >= 2
                 /\ IsTransitionPost(tr[2])
                 /\ tr[2].json = TransitionPayload(Head(path).id, Head(path).resolution)
                 /\ tr[2].ok => FetchedBeforeEachStep(SubSeq(tr, 3, Len(tr)), Tail(path))
            ELSE FetchedBeforeEachStep(Tail(tr), Tail(path))

\* C24: a live call fetches the status anew before each step of its path
\* and posts the step's transition only when the status just fetched is the
\* step's from-status; a step that does not match is passed without a post
C24_StatusFetchedBeforeEachStep ==
    EntersWalk => FetchedBeforeEachStep(Tail(t_last.trace), ClaimedPath(t_last.target))

\* a subtask in Open was resolved: the first step was passed without a
\* post, the second and the third were posted after a fetch each
C24_Witness ==
    /\ EntersWalk
    /\ t_last.before = ST_Open /\ t_last.target = ST_Resolved
    /\ remote.workflow = DEFAULT_TRANSITIONS
    /\ Len(t_last.trace) = 7
    /\ ~t_last.exc /\ t_last.val

\* what the call returns and posts for the subtask in the status Open, on
\* the same workflow and without a failing request
CanonicalOpen ==
    JiraAdapter_transition_issue(
        [World(0, {}, <<>>, <<>>, NoResult, 0) EXCEPT
            !.remote = TransitionRemote(ST_Open, remote.workflow)],
        TransitionKey, t_last.target)

\* C25: a live call on a subtask whose status is spelled "open" posts the
\* transitions and returns the value of the call on the status "Open"
C25_StatusCaseInsensitive ==
    (LiveTransition /\ t_last.before = W_open /\ t_last.failed = 0) =>
        /\ PostedTransitions(mutations) = PostedTransitions(CanonicalOpen.w.muts)
        /\ t_last.exc = CanonicalOpen.exc
        /\ t_last.val = CanonicalOpen.val

\* the last request of the call
LastRequest == t_last.trace[Len(t_last.trace)]

\* C26: a live call that has walked its path without a failed request ends
\* with a fetch of the status and returns success exactly when the
\* lower-cased target is part of the lower-cased status fetched
C26_SuccessIffTargetInFinalStatus ==
    (EntersWalk /\ \A i \in DOMAIN t_last.trace : t_last.trace[i].ok) =>
        /\ IsStatusFetch(LastRequest)
        /\ LastRequest.data.status = IssueOf(remote, TransitionKey).status
        /\ ~t_last.exc
        /\ t_last.val <=> Contains(Lower(LastRequest.data.status), Lower(t_last.target))

\* the call took a subtask in Open to In Progress for the target
\* "progress" and reported success
C26_Witness ==
    /\ EntersWalk
    /\ \A i \in DOMAIN t_last.trace : t_last.trace[i].ok
    /\ t_last.target = W_progress /\ t_last.before = ST_Open
    /\ IssueOf(remote, TransitionKey).status = ST_InProgress
    /\ t_last.val

\* the ids of the transitions among a sequence of requests
RECURSIVE PostedIds(_)
PostedIds(tr) ==
    IF tr = <<>> THEN <<>>
    ELSE (IF IsTransitionPost(Head(tr)) THEN <<Head(tr).json.transition.id>> ELSE <<>>)
         \o PostedIds(Tail(tr))

\* the subsequences of 7, 4, 5
SubsequencesOf745 ==
    {<<>>, <<"7">>, <<"4">>, <<"5">>, <<"7", "4">>, <<"7", "5">>, <<"4", "5">>,
     <<"7", "4", "5">>}

\* C30: on every workflow and from every status a live call returns after
\* at most three posts whose ids are a subsequence of 7, 4, 5, and a post
\* that fails is the last request of the call, which reports failure
C30_AtMostThreePostsStopAtFailure ==
    LiveTransition =>
        /\ Len(PostedIds(t_last.trace)) <= 3
        /\ PostedIds(t_last.trace) \in SubsequencesOf745
        /\ Len(t_last.trace) <= 8
        /\ \A i \in DOMAIN t_last.trace :
              (IsTransitionPost(t_last.trace[i]) /\ ~t_last.trace[i].ok) =>
                  /\ i = Len(t_last.trace)
                  /\ ~t_last.exc /\ ~t_last.val

\* the workflow refused the transition 4 of a subtask in Open: the call
\* ended there and reported failure
C30_Witness ==
    /\ LiveTransition
    /\ t_last.failed = 0
    /\ remote.workflow = WorkflowWithoutStart
    /\ t_last.before = ST_Open /\ t_last.target = ST_Resolved
    /\ PostedIds(t_last.trace) = <<"4">>
    /\ ~LastRequest.ok
    /\ ~t_last.val

----------------------------------------------------------------------------
(* Properties of the hook manager (HookSpec). *)

\* x comes before y: lower priority first, then the earlier registration
HookBefore(x, y) ==
    \/ x.priority < y.priority
    \/ x.priority = y.priority /\ x.seq < y.seq

\* the hooks of a set in the order of their priority and registration
RECURSIVE InOrder(_)
InOrder(S) ==
    IF S = {} THEN <<>>
    ELSE <<CHOOSE x \in S : \A y \in S \ {x} : HookBefore(x, y)>>
         \o InOrder(S \ {CHOOSE x \in S : \A y \in S \ {x} : HookBefore(x, y)})

\* the hooks registered at the point of the last trigger(), in the order
\* the hook manager owes them
Owed == InOrder(Range(h_hooks[h_context.hook_point]))

\* trigger() returned
Triggered == h_context # NoneRec

\* the hook calls context.cancel()
Cancels(hook) == hook.handler \in {"cancels", "cancels_raises"}

\* the hook raises
Raises(hook) == hook.handler \in {"raises", "cancels_raises"}

\* C15: trigger(point) invokes hooks registered at that point only, in
\* ascending priority and, within a priority, in registration order; all of
\* them when no hook cancels
C15_PriorityThenRegistration ==
    Triggered =>
        /\ Len(h_trace) <= Len(Owed)
        /\ h_trace = SubSeq(Owed, 1, Len(h_trace))
        /\ (\A i \in DOMAIN Owed : ~Cancels(Owed[i])) => h_trace = Owed

\* trigger() invoked three hooks, two of equal priority, one of them
\* registered before a hook that ran ahead of it
C15_Witness ==
    /\ Triggered
    /\ Len(h_trace) = 3
    /\ h_trace[2].priority = h_trace[3].priority
    /\ h_trace[1].seq > h_trace[2].seq

\* C16: a hook that raises, no hook up to it having cancelled, is followed
\* by the next hook in the order; trigger() returns a context whose error is
\* the exception of a hook that raised
C16_RaisingHookDoesNotStopOthers ==
    Triggered =>
        /\ \A i \in DOMAIN h_trace :
              (Raises(h_trace[i]) /\ i < Len(Owed)
                  /\ \A j \in 1..i : ~Cancels(h_trace[j]))
              => Len(h_trace) > i
        /\ (\E i \in DOMAIN h_trace : Raises(h_trace[i])) =>
              \E i \in DOMAIN h_trace :
                  Raises(h_trace[i]) /\ h_context.error = <<"error", h_trace[i].seq>>
        /\ (\A i \in DOMAIN h_trace : ~Raises(h_trace[i])) => h_context.error = None

\* the first hook raised and the two after it were invoked
C16_Witness ==
    /\ Triggered
    /\ Len(h_trace) = 3
    /\ h_trace[1].handler = "raises"
    /\ h_context.error # None
    /\ ~h_context.cancelled

\* C18: the hook that cancels is the last one invoked, and the context
\* that trigger() returns is cancelled
C18_NothingAfterCancel ==
    Triggered =>
        \A i \in DOMAIN h_trace :
            Cancels(h_trace[i]) => (i = Len(h_trace) /\ h_context.cancelled)

----------------------------------------------------------------------------
(* Properties of the event bus (BusSpec). *)

\* the handlers subscribed for the event published last: those of its type,
\* then the catch-all handlers
Subscribed ==
    HandlersGet(e_handlers, e_history[Len(e_history)])
        \o HandlersGet(e_handlers, DomainEvent)

\* C17: publish() calls every handler subscribed for the event, those
\* that follow a handler that raises included
C17_RaisingSubscriberDoesNotStopOthers ==
    e_outcome # "none" => e_called = Subscribed

----------------------------------------------------------------------------
(* Properties of the command batch (BatchSpec). *)

\* the issue keys of the commands that call the tracker, in batch order
RECURSIVE CallingKeys(_)
CallingKeys(commands) ==
    IF commands = <<>> THEN <<>>
    ELSE (IF Head(commands).issue_key # NoKey /\ ~Head(commands).dry_run
          THEN <<Head(commands).issue_key>> ELSE <<>>) \o CallingKeys(Tail(commands))

\* the issue keys of the requests sent, in the order they were sent
SentKeys == [i \in DOMAIN mutations |-> mutations[i][2][3]]

\* result i is the result of command i
ResultOf(i) ==
    IF b_results[i].success
    THEN b_results[i].dry_run = b_commands[i].dry_run
    ELSE b_results[i].error[2] = b_commands[i].issue_key

\* C19: execute_all() executes the commands in the order they were added;
\* with stop_on_error it stops right after the first failed command and
\* results is the executed prefix; without it every command is executed,
\* results has one entry per command and executed_count + failed_count is
\* the number of commands
C19_BatchOrderAndStop ==
    b_pc = "executed" =>
        /\ Len(b_results) <= Len(b_commands)
        /\ \A i \in DOMAIN b_results : ResultOf(i)
        /\ ~adapter.dry_run =>
                SentKeys = CallingKeys(SubSeq(b_commands, 1, Len(b_results)))
        /\ b_stop_on_error =>
                /\ \A i \in 1..(Len(b_results) - 1) : b_results[i].success
                /\ Len(b_results) < Len(b_commands) => ~b_results[Len(b_results)].success
        /\ ~b_stop_on_error =>
                /\ Len(b_results) = Len(b_commands)
                /\ CommandBatch_executed_count(b_results)
                        + CommandBatch_failed_count(b_results) = Len(b_commands)

\* a batch of three stopped after its second command, which failed on the
\* remote; the first command had updated the issue
C19_Witness ==
    /\ b_pc = "executed"
    /\ b_stop_on_error
    /\ Len(b_commands) = 3
    /\ Len(b_results) = 2
    /\ b_results[1].success /\ ~b_results[1].dry_run
    /\ Len(mutations) = 2
    /\ remote # remote_init

----------------------------------------------------------------------------
(* Properties of the markdown parser (ParseSpec). *)

\* the id has the form [A-Z]+-[0-9]+
IsPrefixedId(id) ==
    \E k \in 1..(Len(id) - 2) :
        /\ \A i \in 1..k : id[i] \in UpperSet
        /\ id[k + 1] = "-"
        /\ \A i \in (k + 2)..Len(id) : id[i] \in Range(DigitChars)

\* the id has the form #[0-9]+
IsHashId(id) ==
    /\ Len(id) >= 2
    /\ id[1] = "#"
    /\ \A i \in 2..Len(id) : id[i] \in Range(DigitChars)

\* the headers a document's stories are owed for
RECURSIVE StoryHeaders(_)
StoryHeaders(headers) ==
    IF headers = <<>> THEN <<>>
    ELSE (IF IsPrefixedId(Head(headers).id) \/ IsHashId(Head(headers).id)
          THEN <<Head(headers)>> ELSE <<>>) \o StoryHeaders(Tail(headers))

\* C20: the parser returns one story, with the id as written, for every
\* header whose id has the form [A-Z]+-[0-9]+ or #[0-9]+, and none for
\* any other header
C20_StoryIdForms ==
    p_pc = "parsed" => p_stories = StoryHeaders(p_content)

----------------------------------------------------------------------------
(* Properties of the comment and status phases (Spec). *)

\* the mutating requests a step sends
NewMutations == SubSeq(mutations', Len(mutations) + 1, Len(mutations'))

\* the keys of the issues of the epic
KeysOf(rem) == {c.key : c \in Range(rem.children)}

\* the comment posts to an issue among a sequence of requests
CommentPosts(muts, key) ==
    {i \in DOMAIN muts : muts[i][1] = "POST" /\ muts[i][2] = CommentEndpoint(key)}

\* the issue carries a comment whose body holds the phrase "Related Commits"
CarriesCommitsComment(rem, key) ==
    \E i \in DOMAIN IssueOf(rem, key).comments :
        \/ IssueOf(rem, key).comments[i].body.heading = "Related Commits"
        \/ "Related Commits" \in Range(IssueOf(rem, key).comments[i].body.rows)

\* the stories of the analysis that are matched to the issue and have commits
CommittedStories(key) ==
    {k \in DOMAIN o_md_stories :
        /\ DictHas(o_matches, o_md_stories[k].id)
        /\ DictGet(o_matches, o_md_stories[k].id) = key
        /\ o_md_stories[k].commits # <<>>}

\* the entries of a call log that name an operation
CallsOf(call_log, op) == {i \in DOMAIN call_log : call_log[i].op = op}

\* C22: the Add Comments phase posts a comment to an issue only when a
\* matched story with commits stands for it and the issue carried no comment
\* with the phrase "Related Commits" before; what it posts is the commits
\* table of such a story, at most one comment is added per issue, and
\* add_comment is called at most once per matched story with commits
C22_OneCommitsCommentWhenMissing ==
    [][(pc = "comments" /\ config.sync_comments) =>
        /\ \A key \in KeysOf(remote) :
              /\ Cardinality(CommentPosts(NewMutations, key))
                    <= Cardinality(CommittedStories(key))
              /\ Len(IssueOf(remote', key).comments)
                    <= Len(IssueOf(remote, key).comments) + 1
              /\ \A i \in CommentPosts(NewMutations, key) :
                    /\ ~CarriesCommitsComment(remote, key)
                    /\ \E k \in CommittedStories(key) :
                          NewMutations[i][3].body
                            = [heading |-> "Related Commits", rows |-> o_md_stories[k].commits]
        /\ \A i \in DOMAIN NewMutations :
              /\ NewMutations[i][1] = "POST"
              /\ \E key \in KeysOf(remote) : NewMutations[i][2] = CommentEndpoint(key)
        /\ Cardinality(CallsOf(log', "add_comment")) - Cardinality(CallsOf(log, "add_comment"))
              <= Cardinality(UNION {CommittedStories(key) : key \in KeysOf(remote)})]_vars

\* a live Add Comments phase posted the commits of one story and left alone
\* an issue that carried a commits comment
C22_Witness ==
    /\ pc = "statuses" /\ config.sync_comments
    /\ ~config.dry_run /\ ~adapter_arg
    /\ result.comments_added = 1
    /\ \E key \in KeysOf(remote) :
          /\ CommentPosts(mutations, key) # {}
          /\ CommittedStories(key) # {}
          /\ ~CarriesCommitsComment(remote_init, key)

\* the entries of the analysis that are matched to the issue and complete
CompleteStories(key) ==
    {k \in DOMAIN o_md_stories :
        /\ DictHas(o_matches, o_md_stories[k].id)
        /\ DictGet(o_matches, o_md_stories[k].id) = key
        /\ Status_is_complete(o_md_stories[k].status)}

\* the keys of the issue's subtasks whose status is none of resolved, done,
\* closed, letter case aside
OpenSubtasks(rem, key) ==
    {st.key : st \in {x \in Range(IssueOf(rem, key).subtasks) :
                        Lower(x.status) \notin {W_resolved, W_done, W_closed}}}

\* the subtasks the status phase owes a transition request
OwedSubtasks ==
    UNION {OpenSubtasks(remote, key) :
            key \in {x \in KeysOf(remote) : CompleteStories(x) # {}}}

\* the same, once for every complete story that stands for the parent
OwedRequests ==
    UNION {CompleteStories(key) \X OpenSubtasks(remote, key) : key \in KeysOf(remote)}

\* the transition commands a status phase that returns has executed: each
\* one is counted in statuses_updated or leaves an error
StatusRequests ==
    (result'.statuses_updated - result.statuses_updated)
        + (Len(result'.errors) - Len(result.errors))

CreationsFor(key) ==
    {i \in DOMAIN mutations :
        /\ mutations[i][1] = "POST" /\ mutations[i][2] = <<"issue">>
        /\ mutations[i][3].fields.parent = key}

\* the subtasks of the issue that a creation of the current call has made
CreatedBy(key, i) ==
    {st \in Range(IssueOf(remote, key).subtasks) :
        /\ st.summary = mutations[i][3].fields.summary
        /\ \A x \in AllIssues(remote_init) : x.key # st.key}

\* a live sync() with the subtask and the status phase on has been through
\* its status phase
StatusPhaseAfterSubtaskPhase ==
    /\ pc = "complete"
    /\ ~config.dry_run /\ ~adapter_arg
    /\ config.sync_subtasks /\ config.sync_statuses

\* C28: a subtask that the subtask phase of a live sync() created under a
\* complete story's issue is requested to transition by the status phase of
\* the same call, and is resolved and counted when no command failed
C28_NewSubtaskTransitionedInSameCall ==
    StatusPhaseAfterSubtaskPhase =>
        \A key \in {x \in KeysOf(remote) : CompleteStories(x) # {}} :
            \A i \in CreationsFor(key) :
                \A st \in CreatedBy(key, i) :
                    /\ \/ \E j \in DOMAIN mutations :
                             j > i /\ mutations[j][2] = TransitionsEndpoint(st.key)
                       \/ <<"transition_issue", st.key>> \in Range(result.errors)
                    /\ result.errors = <<>> =>
                          /\ st.status = ST_Resolved
                          /\ result.statuses_updated >= 1
                          /\ result.statuses_updated
                                >= Cardinality(UNION {CreatedBy(key, k) : k \in CreationsFor(key)})

\* the status phase resolved the subtask that the subtask phase of the same
\* call had created under an issue without subtasks
C28_Witness ==
    /\ StatusPhaseAfterSubtaskPhase
    /\ remote_init = RemoteFresh /\ calls = 1
    /\ result.errors = <<>>
    /\ result.subtasks_created = 1 /\ result.statuses_updated = 1
    /\ \E st \in Range(IssueOf(remote, <<"P", 1>>).subtasks) : st.status = ST_Resolved

\* C29: the SyncResult analyze() returns counts as many matched stories as
\* it lists matched pairs, and the matched and the unmatched stories
\* together are the parsed stories
C29_MatchCountsAddUp ==
    AnalyzeReturned =>
        /\ ret.result.stories_matched = Len(ret.result.matched_stories)
        /\ ret.result.stories_matched + Len(ret.result.unmatched_stories)
              = Len(o_md_stories)

----------------------------------------------------------------------------
(* Properties of the ADF formatter (FormatSpec). *)

\* the lines of the text that are list items
ItemLines(text) ==
    {i \in DOMAIN SplitLines(text, 1) :
        Strip(SplitLines(text, 1)[i]) # <<>>
        /\ ~(\E h \in {<<"#", "#", "#", " ">>, <<"#", "#", " ">>, <<"#", " ">>,
                       <<"h", "3", ".", " ">>, <<"h", "2", ".", " ">>} :
                StartsWithAt(SplitLines(text, 1)[i], 1, h))
        /\ (IsTaskLine(SplitLines(text, 1)[i]) \/ IsBulletLine(SplitLines(text, 1)[i]))}

\* the items in the list nodes of a document
ItemSlots(content) ==
    {<<n, k>> : n \in DOMAIN content, k \in 1..MaxLines} \cap
    {s \in (DOMAIN content) \X (1..MaxLines) :
        content[s[1]].type \in {"bulletList", "taskList"} /\ s[2] <= Len(content[s[1]].items)}

\* C27: format_text returns a document for every text, and every list item
\* of the text, one that follows a heading included, is in a list node of
\* the returned document
C27_FormatTextAlwaysReturnsDocument ==
    f_pc = "formatted" =>
        /\ ~f_doc.raised
        /\ Cardinality(ItemSlots(f_doc.content)) = Cardinality(ItemLines(f_text))

----------------------------------------------------------------------------
(* Properties of the legacy engine (LegacySpec). *)

\* the operation a write request performs: what it does, to which issue,
\* and for a new subtask its name
OperationOf(what) ==
    IF what[2] = <<"issue">> THEN <<"subtask", what[3].fields.parent, what[3].fields.summary>>
    ELSE IF what[1] = "PUT" THEN <<"description", what[2][3], <<>>>>
    ELSE IF what[2] = CommentEndpoint(what[2][3]) THEN <<"comment", what[2][3], <<>>>>
    ELSE <<"transition", what[2][3], <<>>>>

\* the prompt was answered yes
AnsweredYes(event) == Lower(Strip(event.answer)) \in {<<"y">>, <<"y", "e", "s">>}

\* the last prompt before event i, 0 when there is none
LastPromptBefore(events, i) ==
    IF \E j \in 1..(i - 1) : events[j].kind = "prompt"
    THEN CHOOSE j \in 1..(i - 1) :
            events[j].kind = "prompt" /\ \A k \in (j + 1)..(i - 1) : events[k].kind # "prompt"
    ELSE 0

\* write request i follows a prompt for its operation that was answered yes,
\* with nothing but requests of that operation in between
Confirmed(events, i) ==
    /\ LastPromptBefore(events, i) # 0
    /\ events[LastPromptBefore(events, i)].what = OperationOf(events[i].what)
    /\ AnsweredYes(events[LastPromptBefore(events, i)])
    /\ \A k \in (LastPromptBefore(events, i) + 1)..(i - 1) :
            OperationOf(events[k].what) = OperationOf(events[i].what)

\* C21: with confirmation enabled, every write request the legacy engine
\* sends (description update, subtask creation, commits comment, status
\* transition) follows a prompt for that operation answered yes, in sync(),
\* fix_descriptions() and sync_subtask_statuses() alike
C21_WritesFollowConfirmedPrompts ==
    l_engine # NoneRec /\ l_engine.confirm =>
        \A i \in DOMAIN l_events :
            l_events[i].kind = "request" => Confirmed(l_events, i)

====
